---- MODULE Spec2Model ----
(***************************************************************************)
(* whoami: identity-resolution layer.                                      *)
(*                                                                         *)
(* The crate keeps no state between calls.  A state of this model is the   *)
(* public call in progress: which function ran, the part of the operating  *)
(* system it looked at (`view`), and what it gave back (`ret`).            *)
(*                                                                         *)
(* Text is modelled as Rust holds it: an OsString is a sequence of bytes,  *)
(* a String is a sequence of bytes that is valid UTF-8.                    *)
(*                                                                         *)
(* Two families of providers are in the source tree:                       *)
(*   "os"   - an implementor of the Target trait (os.rs), reached through  *)
(*            api.rs and the strict codec of conversions.rs;               *)
(*   "unix" - the platform module unix.rs (lib.rs selects it with          *)
(*            path = "unix.rs"), whose functions return plain values.      *)
(***************************************************************************)
EXTENDS Integers, Sequences, FiniteSets, TLC

VARIABLES
    call,      \* the call of a single caller: Idle, or a function, what it saw and its result
    hist,      \* the states the operating system went through, the last one current
    thread,    \* each thread's position in the call it is making
    statics    \* wasm.rs: the statics INIT and USER_AGENT

vars == <<call, hist, thread, statics>>

(***************************************************************************)
(* Bounds                                                                  *)
(***************************************************************************)
\* longest native string the operating system hands over
MaxLen == 2

\* longest raw locale string the provider hands over
MaxLangLen == 4

\* most lines in /etc/machine-info and /etc/os-release
MaxLines == 2

\* most '='-separated pieces after the key on one line of those files
MaxParts == 1

\* longest piece between two '=' on a line of those files
MaxValueLen == 2

\* the length hostname_os asks gethostname for, standing for 255; the buffer
\* has room for one byte more
HostNameMax == 2

\* largest Region::Custom payload drawn, besides 2^31 - 1
MaxCustom == 900

\* longest user-agent string drawn over UaBytes
\* threads that call the library at the same time
NumThreads == 2

\* times the hostname is changed while the program runs
MaxChanges == 1

MaxUaLen == 3

(***************************************************************************)
(* Bytes and strings                                                       *)
(***************************************************************************)
\* '-', 'A', 'a', 0x89, 0xC3: "\xC3\x89" is U+00C9, a lone 0x89 or 0xC3 is
\* not valid UTF-8.
NameBytes == {45, 65, 97, 137, 195}

BoundedSeq(S, n) == UNION {[1..k -> S] : k \in 0..n}

NativeStrings == BoundedSeq(NameBytes, MaxLen)

IsCont(b) == b \in 128..191

\* Second byte allowed after lead byte b of a multi-byte sequence.
SecondOk(b, c) ==
    CASE b = 224 -> c \in 160..191
      [] b = 237 -> c \in 128..159
      [] b = 240 -> c \in 144..191
      [] b = 244 -> c \in 128..143
      [] OTHER   -> IsCont(c)

\* Number of bytes the lead byte b announces; 0 when b cannot start a char.
Utf8Width(b) ==
    CASE b \in 0..127   -> 1
      [] b \in 194..223 -> 2
      [] b \in 224..239 -> 3
      [] b \in 240..244 -> 4
      [] OTHER          -> 0

\* Length of the well-formed character starting at s[i], 0 when there is none.
CharLenAt(s, i) ==
    LET w == Utf8Width(s[i]) IN
    IF w = 0 \/ i + w - 1 > Len(s) THEN 0
    ELSE IF w = 1 THEN 1
    ELSE IF /\ SecondOk(s[i], s[i + 1])
            /\ \A k \in 2..(w - 1) : IsCont(s[i + k])
         THEN w
         ELSE 0

\* Bytes from_utf8_lossy replaces by one U+FFFD at an ill-formed position:
\* the longest prefix of a well-formed character, at least one byte.
BadLenAt(s, i) ==
    LET w == Utf8Width(s[i]) IN
    IF w < 2 \/ i + 1 > Len(s) \/ ~SecondOk(s[i], s[i + 1]) THEN 1
    ELSE IF w = 2 \/ i + 2 > Len(s) \/ ~IsCont(s[i + 2]) THEN 2
    ELSE 3

RECURSIVE ValidFrom(_, _)
ValidFrom(s, i) ==
    IF i > Len(s) THEN TRUE
    ELSE LET n == CharLenAt(s, i) IN
         IF n = 0 THEN FALSE ELSE ValidFrom(s, i + n)

\* core::str::from_utf8(..).is_ok()
ValidUtf8(s) == ValidFrom(s, 1)

\* U+FFFD REPLACEMENT CHARACTER
Replacement == <<239, 191, 189>>

RECURSIVE LossyFrom(_, _)
LossyFrom(s, i) ==
    IF i > Len(s) THEN <<>>
    ELSE LET n == CharLenAt(s, i) IN
         IF n = 0 THEN Replacement \o LossyFrom(s, i + BadLenAt(s, i))
         ELSE SubSeq(s, i, i + n - 1) \o LossyFrom(s, i + n)

\* String::from_utf8_lossy / OsStr::to_string_lossy
to_string_lossy(s) == LossyFrom(s, 1)

\* The characters of a String, each as its own byte sequence.
RECURSIVE CharsFrom(_, _)
CharsFrom(s, i) ==
    IF i > Len(s) THEN <<>>
    ELSE LET n == CharLenAt(s, i) IN
         <<SubSeq(s, i, i + n - 1)>> \o CharsFrom(s, i + n)

chars(s) == CharsFrom(s, 1)

\* char::to_uppercase for ASCII and the Latin-1 letters (U+00DF gives "SS",
\* U+00FF gives U+0178); every other character of the model has no mapping.
char_to_uppercase(c) ==
    IF Len(c) = 1 /\ c[1] \in 97..122 THEN <<c[1] - 32>>
    ELSE IF Len(c) = 2 /\ c[1] = 195 /\ c[2] \in (160..190) \ {183}
         THEN <<195, c[2] - 32>>
    ELSE IF c = <<195, 159>> THEN <<83, 83>>
    ELSE IF c = <<195, 191>> THEN <<197, 184>>
    ELSE c

\* char::to_lowercase for ASCII and the Latin-1 letters.
char_to_lowercase(c) ==
    IF Len(c) = 1 /\ c[1] \in 65..90 THEN <<c[1] + 32>>
    ELSE IF Len(c) = 2 /\ c[1] = 195 /\ c[2] \in (128..158) \ {151}
         THEN <<195, c[2] + 32>>
    ELSE c

RECURSIVE Concat(_)
Concat(ss) == IF ss = <<>> THEN <<>> ELSE Head(ss) \o Concat(Tail(ss))

\* str::to_uppercase
to_uppercase(s) ==
    LET cs == chars(s) IN Concat([k \in 1..Len(cs) |-> char_to_uppercase(cs[k])])

\* str::to_lowercase
to_lowercase(s) ==
    LET cs == chars(s) IN Concat([k \in 1..Len(cs) |-> char_to_lowercase(cs[k])])

\* a lowercasing that also reaches the letters outside ASCII
make_ascii_lowercase_all(s) == to_lowercase(s)

\* str::make_ascii_lowercase: bytes 'A'..'Z' only
make_ascii_lowercase(s) ==
    [k \in 1..Len(s) |-> IF s[k] \in 65..90 THEN s[k] + 32 ELSE s[k]]

\* char::is_uppercase, same repertoire as char_to_lowercase
IsUppercaseChar(c) == char_to_lowercase(c) # c

(***************************************************************************)
(* Results                                                                 *)
(***************************************************************************)
Ok(v) == [st |-> "ok", val |-> v]

\* io::Error: its kind and, for InvalidData raised by the codec, the bytes
\* the wrapped FromUtf8Error carries.
Err(kind, bytes) == [st |-> "err", kind |-> kind, bytes |-> bytes]

\* unwinding out of the called function (unwrap / expect on a failure)
Panic == [st |-> "panic"]

\* a plain value handed back by a function that has no Result in its type
Ret(v) == [st |-> "ret", val |-> v]

\* error kinds a provider reports when the OS primitive cannot be reached
ProviderErrKinds == {"NotFound", "PermissionDenied"}

ProviderErrs == {Err(k, <<>>) : k \in ProviderErrKinds}

\* Result::and_then
and_then(r, f(_)) == IF r.st = "ok" THEN f(r.val) ELSE r

\* Result::or_else; the alternative is evaluated only on Err
or_else(r, alt) == IF r.st = "err" THEN alt ELSE r

\* Result::unwrap_or_else
unwrap_or_else(r, default) ==
    CASE r.st = "ok"  -> Ret(r.val)
      [] r.st = "err" -> Ret(default)
      [] OTHER        -> r

\* Result::map
map(r, f(_)) == IF r.st = "ok" THEN Ok(f(r.val)) ELSE r

\* a codec that replaces ill-formed bytes instead of rejecting them
string_from_os_lossy(string) == Ok(to_string_lossy(string))

\* conversions::string_from_os (not windows): strict UTF-8
string_from_os(string) ==
    IF ValidUtf8(string) THEN Ok(string) ELSE Err("InvalidData", string)

(***************************************************************************)
(* Constants of lib.rs                                                     *)
(***************************************************************************)
\* "Unknown"
DEFAULT_USERNAME == <<85, 110, 107, 110, 111, 119, 110>>

\* "LocalHost"
DEFAULT_HOSTNAME == <<76, 111, 99, 97, 108, 72, 111, 115, 116>>

(***************************************************************************)
(* Enums of lib.rs                                                         *)
(***************************************************************************)
\* payloads of the Unknown(String) variants: "", "Unknown", "WASI", "Daku"
UnknownPayloads ==
    {<<>>, <<85, 110, 107, 110, 111, 119, 110>>, <<87, 65, 83, 73>>, <<68, 97, 107, 117>>}

PlatformVariants ==
    {"Linux", "Bsd", "Windows", "MacOS", "Illumos", "Ios", "Android", "Nintendo", "Xbox", "PlayStation", "Fuchsia", "Redox"}

\* enum Platform
Platforms ==
    {[variant |-> x, payload |-> <<>>] : x \in PlatformVariants}
    \cup {[variant |-> "Unknown", payload |-> s] : s \in UnknownPayloads}

\* impl Display for Platform
PlatformDisplay(p) ==
    IF p.variant = "Unknown"
    THEN <<85, 110, 107, 110, 111, 119, 110, 58, 32>> \o p.payload
    ELSE
    CASE p.variant = "Linux" -> <<76, 105, 110, 117, 120>>   \* "Linux"
      [] p.variant = "Bsd" -> <<66, 83, 68>>   \* "BSD"
      [] p.variant = "Windows" -> <<87, 105, 110, 100, 111, 119, 115>>   \* "Windows"
      [] p.variant = "MacOS" -> <<77, 97, 99, 32, 79, 83>>   \* "Mac OS"
      [] p.variant = "Illumos" -> <<73, 108, 108, 117, 109, 111, 115>>   \* "Illumos"
      [] p.variant = "Ios" -> <<105, 79, 83>>   \* "iOS"
      [] p.variant = "Android" -> <<65, 110, 100, 114, 111, 105, 100>>   \* "Android"
      [] p.variant = "Nintendo" -> <<78, 105, 110, 116, 101, 110, 100, 111>>   \* "Nintendo"
      [] p.variant = "Xbox" -> <<88, 66, 111, 120>>   \* "XBox"
      [] p.variant = "PlayStation" -> <<80, 108, 97, 121, 83, 116, 97, 116, 105, 111, 110>>   \* "PlayStation"
      [] p.variant = "Fuchsia" -> <<70, 117, 99, 104, 115, 105, 97>>   \* "Fuchsia"
      [] p.variant = "Redox" -> <<82, 101, 100, 111, 120>>   \* "Redox"

ArchVariants ==
    {"ArmV5", "ArmV6", "ArmV7", "Arm64", "I386", "I586",
     "I686", "X64", "Mips", "MipsEl", "Mips64", "Mips64El",
     "PowerPc", "PowerPc64", "PowerPc64Le", "Riscv32", "Riscv64", "S390x",
     "Sparc", "Sparc64", "Wasm32", "Wasm64"}

\* enum Arch
Archs ==
    {[variant |-> x, payload |-> <<>>] : x \in ArchVariants}
    \cup {[variant |-> "Unknown", payload |-> s] : s \in UnknownPayloads}

DesktopEnvVariants ==
    {"Gnome", "Windows", "Lxde", "Openbox", "Mate", "Xfce",
     "Kde", "Cinnamon", "I3", "Aqua", "Ios", "Android",
     "WebBrowser", "Console", "Ubuntu", "Ermine", "Orbital"}

\* enum DesktopEnv
DesktopEnvs ==
    {[variant |-> x, payload |-> <<>>] : x \in DesktopEnvVariants}
    \cup {[variant |-> "Unknown", payload |-> s] : s \in UnknownPayloads}

(***************************************************************************)
(* Provider "unix": unix.rs                                                *)
(***************************************************************************)
\* unix.rs string_from_os: lossy on bytes that are not UTF-8
unix_string_from_os(string) ==
    IF ValidUtf8(string) THEN string ELSE to_string_lossy(string)

\* unix.rs getpwuid: Result<OsString, OsString> over the passwd record pw
getpwuid(real, pw) ==
    IF real
    THEN IF pw.pw_gecos = <<>>
         THEN [ok |-> FALSE, val |-> pw.pw_name]
         ELSE [ok |-> TRUE, val |-> pw.pw_gecos]
    ELSE [ok |-> TRUE, val |-> pw.pw_name]

unix_username_os(pw) == getpwuid(FALSE, pw).val

unix_username(pw) == unix_string_from_os(unix_username_os(pw))

\* the loop of unix.rs fancy_fallback over the characters cs from index i
RECURSIVE FancyFrom(_, _, _)
FancyFrom(cs, i, cap) ==
    IF i > Len(cs) THEN <<>>
    ELSE IF cs[i] \in {<<46>>, <<45>>, <<95>>}
         THEN <<32>> \o FancyFrom(cs, i + 1, TRUE)
         ELSE IF cap
              THEN char_to_uppercase(cs[i]) \o FancyFrom(cs, i + 1, FALSE)
              ELSE cs[i] \o FancyFrom(cs, i + 1, FALSE)

\* a rewriting that capitalises the first character only
fancy_fallback_firstonly(result) ==
    LET cs == chars(result.val) IN
    Concat([k \in 1..Len(cs) |->
               IF cs[k] \in {<<46>>, <<45>>, <<95>>} THEN <<32>>
               ELSE IF k = 1 THEN char_to_uppercase(cs[k]) ELSE cs[k]])

\* unix.rs fancy_fallback: both arms of `result` hold the text to rewrite
fancy_fallback(result) == FancyFrom(chars(result.val), 1, TRUE)

fancy_fallback_os(result) ==
    IF result.ok THEN result.val
    ELSE LET cs == IF ValidUtf8(result.val)
                   THEN [ok |-> TRUE, val |-> result.val]
                   ELSE [ok |-> FALSE, val |-> to_string_lossy(result.val)]
         IN fancy_fallback(cs)

unix_realname_os(pw) == fancy_fallback_os(getpwuid(TRUE, pw))

unix_realname(pw) == unix_string_from_os(unix_realname_os(pw))

\* str::trim_matches(c): drop every leading and every trailing c
RECURSIVE trim_start_matches(_, _)
trim_start_matches(s, c) ==
    IF s # <<>> /\ Head(s) = c THEN trim_start_matches(Tail(s), c) ELSE s

RECURSIVE trim_end_matches(_, _)
trim_end_matches(s, c) ==
    IF s # <<>> /\ s[Len(s)] = c
    THEN trim_end_matches(SubSeq(s, 1, Len(s) - 1), c)
    ELSE s

trim_matches(s, c) == trim_end_matches(trim_start_matches(s, c), c)

\* unix.rs hostname_os: the bytes gethostname left in the buffer, up to NUL
unix_hostname_os(h) == h.gethostname

unix_hostname(h) == unix_string_from_os(unix_hostname_os(h))

\* the loop of unix.rs devicename over the lines of /etc/machine-info, from
\* line i: "found" with the value, "panic" on unwrap of None, else "none"
RECURSIVE PrettyHostnameFrom(_, _)
PrettyHostnameFrom(lines, i) ==
    IF i > Len(lines) THEN [st |-> "none"]
    ELSE IF lines[i].key = "PRETTY_HOSTNAME"
         THEN IF lines[i].rest = <<>>
              THEN Panic
              ELSE Ret(trim_matches(lines[i].rest[1], 34))
         ELSE PrettyHostnameFrom(lines, i + 1)

\* unix.rs devicename (not macos)
unix_devicename(h) ==
    LET found == IF h.machine_info.readable
                 THEN PrettyHostnameFrom(h.machine_info.lines, 1)
                 ELSE [st |-> "none"]
    IN IF found.st = "none"
       THEN Ret(fancy_fallback([ok |-> FALSE, val |-> unix_hostname(h)]))
       ELSE found

unix_devicename_os(h) == unix_devicename(h)

\* Option<String>
Some(v) == [st |-> "some", val |-> v]

None == [st |-> "none"]

\* the loop of unix.rs distro over the lines of /etc/os-release, from line i,
\* with the NAME value seen so far; `?` on a line without '=' returns None
RECURSIVE DistroFrom(_, _, _)
DistroFrom(lines, i, fallback) ==
    IF i > Len(lines) THEN fallback
    ELSE IF lines[i].key = "PRETTY_NAME"
         THEN IF lines[i].rest = <<>>
              THEN None
              ELSE Some(trim_matches(lines[i].rest[1], 34))
    ELSE IF lines[i].key = "NAME"
         THEN IF lines[i].rest = <<>>
              THEN None
              ELSE DistroFrom(lines, i + 1, Some(trim_matches(lines[i].rest[1], 34)))
    ELSE DistroFrom(lines, i + 1, fallback)

\* unix.rs distro (not macos): expect() on a file that cannot be read
unix_distro(d) ==
    IF d.os_release.readable THEN DistroFrom(d.os_release.lines, 1, None) ELSE Panic

unix_distro_os(d) == unix_distro(d)

\* the arms of unix.rs desktop_env, in source order
desktop_env_arms == <<
    <<<<71, 78, 79, 77, 69>>, "Gnome">>,   \* "GNOME"
    <<<<76, 88, 68, 69>>, "Lxde">>,   \* "LXDE"
    <<<<79, 80, 69, 78, 66, 79, 88>>, "Openbox">>,   \* "OPENBOX"
    <<<<73, 51>>, "I3">>,   \* "I3"
    <<<<85, 66, 85, 78, 84, 85>>, "Ubuntu">>,   \* "UBUNTU"
    <<<<80, 76, 65, 83, 77, 65, 53>>, "Kde">>   \* "PLASMA5"
>>

\* str::contains(pat)
Contains(s, pat) ==
    \E i \in 0..(Len(s) - Len(pat)) : SubSeq(s, i + 1, i + Len(pat)) = pat

\* the first arm of an if / else-if chain whose pattern var_env contains, 0
\* when no arm is taken
FirstArm(arms, var_env) ==
    LET hits == {i \in DOMAIN arms : Contains(var_env, arms[i][1])}
    IN IF hits = {} THEN 0 ELSE CHOOSE i \in hits : \A j \in hits : i <= j

\* a desktop_env that hands back the upper-cased text it matched on
unix_desktop_env_upper(v) ==
    IF v.DESKTOP_SESSION = None
    THEN [variant |-> "Unknown", payload |-> <<85, 110, 107, 110, 111, 119, 110>>]
    ELSE LET env_orig == to_string_lossy(v.DESKTOP_SESSION.val)
             env      == to_uppercase(env_orig)
             i        == FirstArm(desktop_env_arms, env)
         IN IF i # 0 THEN [variant |-> desktop_env_arms[i][2], payload |-> <<>>]
            ELSE [variant |-> "Unknown", payload |-> env]

\* unix.rs desktop_env (not macos) over the variable DESKTOP_SESSION
unix_desktop_env(v) ==
    IF v.DESKTOP_SESSION = None
    THEN [variant |-> "Unknown", payload |-> <<85, 110, 107, 110, 111, 119, 110>>]
    ELSE LET env_orig == to_string_lossy(v.DESKTOP_SESSION.val)
             env      == to_uppercase(env_orig)
             i        == FirstArm(desktop_env_arms, env)
         IN IF i # 0 THEN [variant |-> desktop_env_arms[i][2], payload |-> <<>>]
            ELSE [variant |-> "Unknown", payload |-> env_orig]

\* unix.rs platform (not macos)
unix_platform == [variant |-> "Linux", payload |-> <<>>]

(***************************************************************************)
(* What a call can see of the user database                                *)
(***************************************************************************)
\* Result<OsString> of a Target method (os.rs)
OsOutcomes == {Ok(s) : s \in NativeStrings} \cup ProviderErrs

\* Result<String> of a Target method (os.rs)
StringOutcomes == {Ok(s) : s \in {x \in NativeStrings : ValidUtf8(x)}} \cup ProviderErrs

UserViews ==
    {[target |-> "os", username |-> u, realname |-> r] :
        u \in OsOutcomes, r \in OsOutcomes}
    \cup
    {[target |-> "unix", pw_name |-> n, pw_gecos |-> g] :
        n \in NativeStrings, g \in NativeStrings}

\* '"' and 'a'
ValueBytes == {34, 97}

\* the pieces between two '=' of a line of /etc/machine-info or /etc/os-release
FileValues == BoundedSeq(ValueBytes, MaxValueLen)

\* A line as str::split('=') sees it: the text before the first '=' (only its
\* equality with the keys the code matches on matters) and the pieces after.
FileLines(keys) ==
    {[key |-> k, rest |-> r] :
        k \in keys \cup {"OTHER"}, r \in BoundedSeq(FileValues, MaxParts)}
    \cup {[key |-> k, rest |-> <<<<97>>, <<97>>>>] : k \in keys}   \* KEY=a=a

\* fs::read_to_string: an error, or the text, which split('\n') cuts into at
\* least one line
FileContents(keys) ==
    {[readable |-> FALSE]} \cup
    {[readable |-> TRUE, lines |-> ls] :
        ls \in UNION {[1..n -> FileLines(keys)] : n \in 1..MaxLines}}

HostViews ==
    {[target |-> "os", hostname |-> h, devicename |-> d] :
        h \in StringOutcomes, d \in OsOutcomes}
    \cup
    {[target |-> "unix", gethostname |-> h, machine_info |-> m] :
        h \in NativeStrings, m \in FileContents({"PRETTY_HOSTNAME"})}

DistroViews ==
    {[target |-> "os", distro |-> d, platform |-> p] :
        d \in StringOutcomes, p \in Platforms}
    \cup
    {[target |-> "unix", os_release |-> f] :
        f \in FileContents({"PRETTY_NAME", "NAME"})}

AccountViews == {[target |-> "os", account |-> a] : a \in OsOutcomes}

ArchViews ==
    {[target |-> "os", arch |-> a] : a \in {Ok(x) : x \in Archs} \cup ProviderErrs}

\* 'I', 'i', '3' and 0x89, which is not valid UTF-8
SessionBytes == {73, 105, 51, 137}

\* "gnome", "ubuntu", "ubuntu:GNOME", "plasma5", "LXDE", "openbox", "xfce"
WholeSessions ==
    {<<103, 110, 111, 109, 101>>,
     <<117, 98, 117, 110, 116, 117>>,
     <<117, 98, 117, 110, 116, 117, 58, 71, 78, 79, 77, 69>>,
     <<112, 108, 97, 115, 109, 97, 53>>,
     <<76, 88, 68, 69>>,
     <<111, 112, 101, 110, 98, 111, 120>>,
     <<120, 102, 99, 101>>}

\* env::var_os("DESKTOP_SESSION")
DesktopSessions ==
    {None} \cup {Some(x) : x \in BoundedSeq(SessionBytes, MaxLen) \cup WholeSessions}

DesktopEnvViews ==
    {[target |-> "os", desktop_env |-> e] : e \in DesktopEnvs}
    \cup {[target |-> "unix", DESKTOP_SESSION |-> x] : x \in DesktopSessions}

\* ';', '.', '_', '-', 'C', 'e'
LangBytes == {59, 46, 95, 45, 67, 101}

\* "en_US.UTF-8;fr_FR.UTF-8;C"
ExampleLocale ==
    <<101, 110, 95, 85, 83, 46, 85, 84, 70, 45, 56, 59, 102, 114, 95, 70, 82, 46, 85, 84, 70, 45, 56, 59, 67>>

\* "de_DE.UTF-8"
GermanLocale == <<100, 101, 95, 68, 69, 46, 85, 84, 70, 45, 56>>

\* "es_CO.UTF-8"
ColombianLocale == <<101, 115, 95, 67, 79, 46, 85, 84, 70, 45, 56>>

\* "xx_YY.UTF-8": neither xx nor YY is in a catalogue
UncataloguedLocale == <<120, 120, 95, 89, 89, 46, 85, 84, 70, 45, 56>>

\* the whole locales drawn besides the short strings over LangBytes
WholeLocales == {ExampleLocale, GermanLocale, UncataloguedLocale}

LangViews ==
    {[target |-> "os", langs |-> l] :
        l \in {Ok(s) : s \in BoundedSeq(LangBytes, MaxLangLen) \cup WholeLocales}
               \cup ProviderErrs}

(***************************************************************************)
(* api.rs: the fallible functions over the Target trait                    *)
(***************************************************************************)
\* api.rs arch: expect() on the provider's Result
api_arch(v) == IF v.arch.st = "ok" THEN Ret(v.arch.val) ELSE Panic

api_account_os(v) == v.account

api_account(v) == and_then(api_account_os(v), string_from_os)

api_username_os(v) == v.username

api_username(v) == and_then(api_username_os(v), string_from_os)

api_realname_os(v) == v.realname

api_realname(v) == and_then(api_realname_os(v), string_from_os)

api_hostname(v) == v.hostname

api_devicename_os(v) == v.devicename

api_devicename(v) == and_then(api_devicename_os(v), string_from_os)

api_distro(v) == v.distro

api_desktop_env(v) == Ret(v.desktop_env)

api_platform(v) == Ret(v.platform)

\* str::split(sep): the pieces of s between occurrences of the byte sep
RECURSIVE SplitFrom(_, _, _, _)
SplitFrom(s, sep, i, piece) ==
    IF i > Len(s) THEN <<piece>>
    ELSE IF s[i] = sep THEN <<piece>> \o SplitFrom(s, sep, i + 1, <<>>)
    ELSE SplitFrom(s, sep, i + 1, Append(piece, s[i]))

split(s, sep) == SplitFrom(s, sep, 1, <<>>)

\* str::split_terminator(sep): as split, without a final empty piece
split_terminator(s, sep) ==
    LET ps == split(s, sep) IN
    IF ps[Len(ps)] = <<>> THEN SubSeq(ps, 1, Len(ps) - 1) ELSE ps

\* str::replace(|x| ['_', '-'].contains(&x), "/")
replace_separators(s) ==
    [k \in 1..Len(s) |-> IF s[k] \in {95, 45} THEN 47 ELSE s[k]]

\* a closure that keeps the encoding suffix of the token
normalize_lang_nocut(lang) == replace_separators(lang)

\* the closure of api.rs langs applied to one token
normalize_lang(lang) ==
    LET ps == split_terminator(lang, 46) IN
    replace_separators(IF ps = <<>> THEN <<>> ELSE ps[1])

\* Iterator::filter_map of api.rs langs: drop the tokens that normalize to "C"
RECURSIVE FilterLangs(_)
FilterLangs(tokens) ==
    IF tokens = <<>> THEN <<>>
    ELSE LET lang == normalize_lang(Head(tokens)) IN
         IF lang = <<67>> THEN FilterLangs(Tail(tokens))
         ELSE <<lang>> \o FilterLangs(Tail(tokens))

\* api.rs langs: the Language::__ payloads, most preferred first
api_langs(v) ==
    IF v.langs.st = "ok" THEN Ok(FilterLangs(split(v.langs.val, 59))) ELSE v.langs

(***************************************************************************)
(* `platform`, as fallible.rs calls it: api.rs over a Target, or unix.rs,  *)
(* whose plain values the Result-typed callers receive as successes.       *)
(***************************************************************************)
platform_username(v) ==
    IF v.target = "unix" THEN Ok(unix_username(v)) ELSE api_username(v)

platform_username_os(v) ==
    IF v.target = "unix" THEN Ok(unix_username_os(v)) ELSE api_username_os(v)

platform_realname(v) ==
    IF v.target = "unix" THEN Ok(unix_realname(v)) ELSE api_realname(v)

platform_realname_os(v) ==
    IF v.target = "unix" THEN Ok(unix_realname_os(v)) ELSE api_realname_os(v)

\* a plain value of unix.rs as its Result-typed caller receives it
Lift(r) == IF r.st = "ret" THEN Ok(r.val) ELSE r

platform_hostname(v) ==
    IF v.target = "unix" THEN Ok(unix_hostname(v)) ELSE api_hostname(v)

platform_devicename(v) ==
    IF v.target = "unix" THEN Lift(unix_devicename(v)) ELSE api_devicename(v)

platform_devicename_os(v) ==
    IF v.target = "unix" THEN Lift(unix_devicename_os(v)) ELSE api_devicename_os(v)

\* an Option of unix.rs as its Result-typed caller receives it
LiftOption(r) ==
    CASE r.st = "some" -> Ok(r.val)
      [] r.st = "none" -> Err("NotFound", <<>>)
      [] OTHER         -> r

platform_distro(v) ==
    IF v.target = "unix" THEN LiftOption(unix_distro(v)) ELSE api_distro(v)

platform_distro_os(v) ==
    IF v.target = "unix" THEN LiftOption(unix_distro_os(v)) ELSE api_distro(v)

platform_platform(v) ==
    IF v.target = "unix" THEN Ret(unix_platform) ELSE api_platform(v)

platform_desktop_env(v) ==
    IF v.target = "unix" THEN Ret(unix_desktop_env(v)) ELSE api_desktop_env(v)

platform_arch(v) == api_arch(v)

(***************************************************************************)
(* fallible.rs                                                             *)
(***************************************************************************)
fallible_username(v) == platform_username(v)

fallible_username_os(v) == platform_username_os(v)

fallible_realname(v) == platform_realname(v)

fallible_realname_os(v) == platform_realname_os(v)

fallible_devicename(v) == platform_devicename(v)

fallible_devicename_os(v) == platform_devicename_os(v)

\* a hostname handed on in the provider's letter case
fallible_hostname_keepcase(v) == platform_hostname(v)

fallible_hostname(v) == map(platform_hostname(v), make_ascii_lowercase)

fallible_hostname_os(v) == fallible_hostname(v)

fallible_distro(v) == platform_distro(v)

fallible_distro_os(v) == platform_distro_os(v)

(***************************************************************************)
(* lib.rs: the convenience layer                                           *)
(***************************************************************************)
username(v) == unwrap_or_else(fallible_username(v), to_lowercase(DEFAULT_USERNAME))

username_os(v) == unwrap_or_else(fallible_username_os(v), to_lowercase(DEFAULT_USERNAME))

realname(v) ==
    unwrap_or_else(or_else(fallible_realname(v), fallible_username(v)), DEFAULT_USERNAME)

realname_os(v) ==
    unwrap_or_else(or_else(fallible_realname_os(v), fallible_username_os(v)),
                   DEFAULT_USERNAME)

devicename(v) ==
    unwrap_or_else(or_else(fallible_devicename(v), fallible_hostname(v)),
                   DEFAULT_HOSTNAME)

devicename_os(v) ==
    unwrap_or_else(or_else(fallible_devicename_os(v), fallible_hostname_os(v)),
                   DEFAULT_HOSTNAME)

\* a hostname() whose default keeps the capitals of DEFAULT_HOSTNAME
hostname_rawdefault(v) == unwrap_or_else(fallible_hostname(v), DEFAULT_HOSTNAME)

hostname(v) == unwrap_or_else(fallible_hostname(v), to_lowercase(DEFAULT_HOSTNAME))

hostname_os(v) ==
    unwrap_or_else(fallible_hostname_os(v), to_lowercase(DEFAULT_HOSTNAME))

platform(v) == platform_platform(v)

\* format!("Unknown {}", platform())
unknown_distro(v) == <<85, 110, 107, 110, 111, 119, 110, 32>> \o PlatformDisplay(platform(v).val)

distro(v) == unwrap_or_else(fallible_distro(v), unknown_distro(v))

distro_os(v) == unwrap_or_else(fallible_distro_os(v), unknown_distro(v))

desktop_env(v) == platform_desktop_env(v)

arch(v) == platform_arch(v)

(***************************************************************************)
(* Region and Language of lib.rs                                           *)
(***************************************************************************)
\* impl Display for Region: the arm of each unit variant, in source order
RegionCodes == <<
    <<"Af", <<65, 70>>>>,   \* "AF"
    <<"Al", <<65, 76>>>>,   \* "AL"
    <<"Dz", <<68, 90>>>>,   \* "DZ"
    <<"As", <<65, 83>>>>,   \* "AS"
    <<"Ad", <<65, 68>>>>,   \* "AD"
    <<"Ao", <<65, 79>>>>,   \* "AO"
    <<"Ai", <<65, 73>>>>,   \* "AI"
    <<"Aq", <<65, 81>>>>,   \* "AQ"
    <<"Ag", <<65, 71>>>>,   \* "AG"
    <<"Ar", <<65, 82>>>>,   \* "AR"
    <<"Am", <<65, 77>>>>,   \* "AM"
    <<"Aw", <<65, 87>>>>,   \* "AW"
    <<"Au", <<65, 85>>>>,   \* "AU"
    <<"At", <<65, 84>>>>,   \* "AT"
    <<"Az", <<65, 90>>>>,   \* "AZ"
    <<"Bs", <<66, 83>>>>,   \* "BS"
    <<"Bh", <<66, 72>>>>,   \* "BH"
    <<"Bd", <<66, 68>>>>,   \* "BD"
    <<"Bb", <<66, 66>>>>,   \* "BB"
    <<"By", <<66, 89>>>>,   \* "BY"
    <<"Be", <<66, 69>>>>,   \* "BE"
    <<"Bz", <<66, 90>>>>,   \* "BZ"
    <<"Bj", <<66, 74>>>>,   \* "BJ"
    <<"Bm", <<66, 77>>>>,   \* "BM"
    <<"Bt", <<66, 84>>>>,   \* "BT"
    <<"Bo", <<66, 79>>>>,   \* "BO"
    <<"Bq", <<66, 81>>>>,   \* "BQ"
    <<"Ba", <<66, 65>>>>,   \* "BA"
    <<"Bw", <<66, 87>>>>,   \* "BW"
    <<"Bv", <<66, 86>>>>,   \* "BV"
    <<"Br", <<66, 82>>>>,   \* "BR"
    <<"Io", <<73, 79>>>>,   \* "IO"
    <<"Bn", <<66, 78>>>>,   \* "BN"
    <<"Bg", <<66, 71>>>>,   \* "BG"
    <<"Bf", <<66, 70>>>>,   \* "BF"
    <<"Bi", <<66, 73>>>>,   \* "BI"
    <<"Cv", <<67, 86>>>>,   \* "CV"
    <<"Kh", <<75, 72>>>>,   \* "KH"
    <<"Cm", <<67, 77>>>>,   \* "CM"
    <<"Ca", <<67, 65>>>>,   \* "CA"
    <<"Ky", <<75, 89>>>>,   \* "KY"
    <<"Cf", <<67, 70>>>>,   \* "CF"
    <<"Td", <<84, 68>>>>,   \* "TD"
    <<"Cl", <<67, 76>>>>,   \* "CL"
    <<"Cn", <<67, 78>>>>,   \* "CN"
    <<"Cx", <<67, 88>>>>,   \* "CX"
    <<"Cc", <<67, 67>>>>,   \* "CC"
    <<"Co", <<67, 79>>>>,   \* "CO"
    <<"Km", <<75, 77>>>>,   \* "KM"
    <<"Cd", <<67, 68>>>>,   \* "CD"
    <<"Cg", <<67, 71>>>>,   \* "CG"
    <<"Ck", <<67, 75>>>>,   \* "CK"
    <<"Cr", <<67, 82>>>>,   \* "CR"
    <<"Hr", <<72, 82>>>>,   \* "HR"
    <<"Cu", <<67, 85>>>>,   \* "CU"
    <<"Cw", <<67, 87>>>>,   \* "CW"
    <<"Cy", <<67, 89>>>>,   \* "CY"
    <<"Cz", <<67, 90>>>>,   \* "CZ"
    <<"Ci", <<67, 73>>>>,   \* "CI"
    <<"Dk", <<68, 75>>>>,   \* "DK"
    <<"Dj", <<68, 74>>>>,   \* "DJ"
    <<"Dm", <<68, 77>>>>,   \* "DM"
    <<"Do", <<68, 79>>>>,   \* "DO"
    <<"Ec", <<69, 67>>>>,   \* "EC"
    <<"Eg", <<69, 71>>>>,   \* "EG"
    <<"Sv", <<83, 86>>>>,   \* "SV"
    <<"Gq", <<71, 81>>>>,   \* "GQ"
    <<"Er", <<69, 82>>>>,   \* "ER"
    <<"Ee", <<69, 69>>>>,   \* "EE"
    <<"Sz", <<83, 90>>>>,   \* "SZ"
    <<"Et", <<69, 84>>>>,   \* "ET"
    <<"Fk", <<70, 75>>>>,   \* "FK"
    <<"Fo", <<70, 79>>>>,   \* "FO"
    <<"Fj", <<70, 74>>>>,   \* "FJ"
    <<"Fi", <<70, 73>>>>,   \* "FI"
    <<"Fr", <<70, 82>>>>,   \* "FR"
    <<"Gf", <<71, 70>>>>,   \* "GF"
    <<"Pf", <<80, 70>>>>,   \* "PF"
    <<"Tf", <<84, 70>>>>,   \* "TF"
    <<"Ga", <<71, 65>>>>,   \* "GA"
    <<"Gm", <<71, 77>>>>,   \* "GM"
    <<"Ge", <<71, 69>>>>,   \* "GE"
    <<"De", <<68, 69>>>>,   \* "DE"
    <<"Gh", <<71, 72>>>>,   \* "GH"
    <<"Gi", <<71, 73>>>>,   \* "GI"
    <<"Gr", <<71, 82>>>>,   \* "GR"
    <<"Gl", <<71, 76>>>>,   \* "GL"
    <<"Gd", <<71, 68>>>>,   \* "GD"
    <<"Gp", <<71, 80>>>>,   \* "GP"
    <<"Gu", <<71, 85>>>>,   \* "GU"
    <<"Gt", <<71, 84>>>>,   \* "GT"
    <<"Gg", <<71, 71>>>>,   \* "GG"
    <<"Gn", <<71, 78>>>>,   \* "GN"
    <<"Gw", <<71, 87>>>>,   \* "GW"
    <<"Gy", <<71, 89>>>>,   \* "GY"
    <<"Ht", <<72, 84>>>>,   \* "HT"
    <<"Hm", <<72, 77>>>>,   \* "HM"
    <<"Va", <<86, 65>>>>,   \* "VA"
    <<"Hn", <<72, 78>>>>,   \* "HN"
    <<"Hk", <<72, 75>>>>,   \* "HK"
    <<"Hu", <<72, 85>>>>,   \* "HU"
    <<"Is", <<73, 83>>>>,   \* "IS"
    <<"In", <<73, 78>>>>,   \* "IN"
    <<"Id", <<73, 68>>>>,   \* "ID"
    <<"Ir", <<73, 82>>>>,   \* "IR"
    <<"Iq", <<73, 81>>>>,   \* "IQ"
    <<"Ie", <<73, 69>>>>,   \* "IE"
    <<"Im", <<73, 77>>>>,   \* "IM"
    <<"Il", <<73, 76>>>>,   \* "IL"
    <<"It", <<73, 84>>>>,   \* "IT"
    <<"Jm", <<74, 77>>>>,   \* "JM"
    <<"Jp", <<74, 80>>>>,   \* "JP"
    <<"Je", <<74, 69>>>>,   \* "JE"
    <<"Jo", <<74, 79>>>>,   \* "JO"
    <<"Kz", <<75, 90>>>>,   \* "KZ"
    <<"Ke", <<75, 69>>>>,   \* "KE"
    <<"Ki", <<75, 73>>>>,   \* "KI"
    <<"Kp", <<75, 80>>>>,   \* "KP"
    <<"Kr", <<75, 82>>>>,   \* "KR"
    <<"Kw", <<75, 87>>>>,   \* "KW"
    <<"Kg", <<75, 71>>>>,   \* "KG"
    <<"La", <<76, 65>>>>,   \* "LA"
    <<"Lv", <<76, 86>>>>,   \* "LV"
    <<"Lb", <<76, 66>>>>,   \* "LB"
    <<"Ls", <<76, 83>>>>,   \* "LS"
    <<"Lr", <<76, 82>>>>,   \* "LR"
    <<"Ly", <<76, 89>>>>,   \* "LY"
    <<"Li", <<76, 73>>>>,   \* "LI"
    <<"Lt", <<76, 84>>>>,   \* "LT"
    <<"Lu", <<76, 85>>>>,   \* "LU"
    <<"Mo", <<77, 79>>>>,   \* "MO"
    <<"Mg", <<77, 71>>>>,   \* "MG"
    <<"Mw", <<77, 87>>>>,   \* "MW"
    <<"My", <<77, 89>>>>,   \* "MY"
    <<"Mv", <<77, 86>>>>,   \* "MV"
    <<"Ml", <<77, 76>>>>,   \* "ML"
    <<"Mt", <<77, 84>>>>,   \* "MT"
    <<"Mh", <<77, 72>>>>,   \* "MH"
    <<"Mq", <<77, 81>>>>,   \* "MQ"
    <<"Mr", <<77, 82>>>>,   \* "MR"
    <<"Mu", <<77, 85>>>>,   \* "MU"
    <<"Yt", <<89, 84>>>>,   \* "YT"
    <<"Mx", <<77, 88>>>>,   \* "MX"
    <<"Fm", <<70, 77>>>>,   \* "FM"
    <<"Md", <<77, 68>>>>,   \* "MD"
    <<"Mc", <<77, 67>>>>,   \* "MC"
    <<"Mn", <<77, 78>>>>,   \* "MN"
    <<"Me", <<77, 69>>>>,   \* "ME"
    <<"Ms", <<77, 83>>>>,   \* "MS"
    <<"Ma", <<77, 65>>>>,   \* "MA"
    <<"Mz", <<77, 90>>>>,   \* "MZ"
    <<"Mm", <<77, 77>>>>,   \* "MM"
    <<"Na", <<78, 65>>>>,   \* "NA"
    <<"Nr", <<78, 82>>>>,   \* "NR"
    <<"Np", <<78, 80>>>>,   \* "NP"
    <<"Nl", <<78, 76>>>>,   \* "NL"
    <<"Nc", <<78, 67>>>>,   \* "NC"
    <<"Nz", <<78, 90>>>>,   \* "NZ"
    <<"Ni", <<78, 73>>>>,   \* "NI"
    <<"Ne", <<78, 69>>>>,   \* "NE"
    <<"Ng", <<78, 71>>>>,   \* "NG"
    <<"Nu", <<78, 85>>>>,   \* "NU"
    <<"Nf", <<78, 70>>>>,   \* "NF"
    <<"Mp", <<77, 80>>>>,   \* "MP"
    <<"No", <<78, 79>>>>,   \* "NO"
    <<"Om", <<79, 77>>>>,   \* "OM"
    <<"Pk", <<80, 75>>>>,   \* "PK"
    <<"Pw", <<80, 87>>>>,   \* "PW"
    <<"Ps", <<80, 83>>>>,   \* "PS"
    <<"Pa", <<80, 65>>>>,   \* "PA"
    <<"Pg", <<80, 71>>>>,   \* "PG"
    <<"Py", <<80, 89>>>>,   \* "PY"
    <<"Pe", <<80, 69>>>>,   \* "PE"
    <<"Ph", <<80, 72>>>>,   \* "PH"
    <<"Pn", <<80, 78>>>>,   \* "PN"
    <<"Pl", <<80, 76>>>>,   \* "PL"
    <<"Pt", <<80, 84>>>>,   \* "PT"
    <<"Pr", <<80, 82>>>>,   \* "PR"
    <<"Qa", <<81, 65>>>>,   \* "QA"
    <<"Mk", <<77, 75>>>>,   \* "MK"
    <<"Ro", <<82, 79>>>>,   \* "RO"
    <<"Ru", <<82, 85>>>>,   \* "RU"
    <<"Rw", <<82, 87>>>>,   \* "RW"
    <<"Re", <<82, 69>>>>,   \* "RE"
    <<"Bl", <<66, 76>>>>,   \* "BL"
    <<"Sh", <<83, 72>>>>,   \* "SH"
    <<"Kn", <<75, 78>>>>,   \* "KN"
    <<"Lc", <<76, 67>>>>,   \* "LC"
    <<"Mf", <<77, 70>>>>,   \* "MF"
    <<"Pm", <<80, 77>>>>,   \* "PM"
    <<"Vc", <<86, 67>>>>,   \* "VC"
    <<"Ws", <<87, 83>>>>,   \* "WS"
    <<"Sm", <<83, 77>>>>,   \* "SM"
    <<"St", <<83, 84>>>>,   \* "ST"
    <<"Sa", <<83, 65>>>>,   \* "SA"
    <<"Sn", <<83, 78>>>>,   \* "SN"
    <<"Rs", <<82, 83>>>>,   \* "RS"
    <<"Sc", <<83, 67>>>>,   \* "SC"
    <<"Sl", <<83, 76>>>>,   \* "SL"
    <<"Sg", <<83, 71>>>>,   \* "SG"
    <<"Sx", <<83, 88>>>>,   \* "SX"
    <<"Sk", <<83, 75>>>>,   \* "SK"
    <<"Si", <<83, 73>>>>,   \* "SI"
    <<"Sb", <<83, 66>>>>,   \* "SB"
    <<"So", <<83, 79>>>>,   \* "SO"
    <<"Za", <<90, 65>>>>,   \* "ZA"
    <<"Gs", <<71, 83>>>>,   \* "GS"
    <<"Ss", <<83, 83>>>>,   \* "SS"
    <<"Es", <<69, 83>>>>,   \* "ES"
    <<"Lk", <<76, 75>>>>,   \* "LK"
    <<"Sd", <<83, 68>>>>,   \* "SD"
    <<"Sr", <<83, 82>>>>,   \* "SR"
    <<"Sj", <<83, 74>>>>,   \* "SJ"
    <<"Se", <<83, 69>>>>,   \* "SE"
    <<"Ch", <<67, 72>>>>,   \* "CH"
    <<"Sy", <<83, 89>>>>,   \* "SY"
    <<"Tw", <<84, 87>>>>,   \* "TW"
    <<"Tj", <<84, 74>>>>,   \* "TJ"
    <<"Tz", <<84, 90>>>>,   \* "TZ"
    <<"Th", <<84, 72>>>>,   \* "TH"
    <<"Tl", <<84, 76>>>>,   \* "TL"
    <<"Tg", <<84, 71>>>>,   \* "TG"
    <<"Tk", <<84, 75>>>>,   \* "TK"
    <<"To", <<84, 79>>>>,   \* "TO"
    <<"Tt", <<84, 84>>>>,   \* "TT"
    <<"Tn", <<84, 78>>>>,   \* "TN"
    <<"Tr", <<84, 82>>>>,   \* "TR"
    <<"Tm", <<84, 77>>>>,   \* "TM"
    <<"Tc", <<84, 67>>>>,   \* "TC"
    <<"Tv", <<84, 86>>>>,   \* "TV"
    <<"Ug", <<85, 71>>>>,   \* "UG"
    <<"Ua", <<85, 65>>>>,   \* "UA"
    <<"Ae", <<65, 69>>>>,   \* "AE"
    <<"Gb", <<71, 66>>>>,   \* "GB"
    <<"Um", <<85, 77>>>>,   \* "UM"
    <<"Us", <<85, 83>>>>,   \* "US"
    <<"Uy", <<85, 89>>>>,   \* "UY"
    <<"Uz", <<85, 90>>>>,   \* "UZ"
    <<"Vu", <<86, 85>>>>,   \* "VU"
    <<"Ve", <<86, 69>>>>,   \* "VE"
    <<"Vn", <<86, 78>>>>,   \* "VN"
    <<"Vg", <<86, 71>>>>,   \* "VG"
    <<"Vi", <<86, 73>>>>,   \* "VI"
    <<"Wf", <<87, 70>>>>,   \* "WF"
    <<"Eh", <<69, 72>>>>,   \* "EH"
    <<"Ye", <<89, 69>>>>,   \* "YE"
    <<"Zm", <<90, 77>>>>,   \* "ZM"
    <<"Zw", <<90, 87>>>>,   \* "ZW"
    <<"Ax", <<65, 88>>>>   \* "AX"
>>

\* impl Display for Region: the numeric arms of Region::Custom(value)
CustomRegionCodes == <<
    <<4, <<65, 70>>>>,   \* "AF"
    <<8, <<65, 76>>>>,   \* "AL"
    <<12, <<68, 90>>>>,   \* "DZ"
    <<16, <<65, 83>>>>,   \* "AS"
    <<20, <<65, 68>>>>,   \* "AD"
    <<24, <<65, 79>>>>,   \* "AO"
    <<660, <<65, 73>>>>,   \* "AI"
    <<10, <<65, 81>>>>,   \* "AQ"
    <<28, <<65, 71>>>>,   \* "AG"
    <<32, <<65, 82>>>>,   \* "AR"
    <<51, <<65, 77>>>>,   \* "AM"
    <<533, <<65, 87>>>>,   \* "AW"
    <<36, <<65, 85>>>>,   \* "AU"
    <<40, <<65, 84>>>>,   \* "AT"
    <<31, <<65, 90>>>>,   \* "AZ"
    <<44, <<66, 83>>>>,   \* "BS"
    <<48, <<66, 72>>>>,   \* "BH"
    <<50, <<66, 68>>>>,   \* "BD"
    <<52, <<66, 66>>>>,   \* "BB"
    <<112, <<66, 89>>>>,   \* "BY"
    <<56, <<66, 69>>>>,   \* "BE"
    <<84, <<66, 90>>>>,   \* "BZ"
    <<204, <<66, 74>>>>,   \* "BJ"
    <<60, <<66, 77>>>>,   \* "BM"
    <<64, <<66, 84>>>>,   \* "BT"
    <<68, <<66, 79>>>>,   \* "BO"
    <<535, <<66, 81>>>>,   \* "BQ"
    <<70, <<66, 65>>>>,   \* "BA"
    <<72, <<66, 87>>>>,   \* "BW"
    <<74, <<66, 86>>>>,   \* "BV"
    <<76, <<66, 82>>>>,   \* "BR"
    <<86, <<73, 79>>>>,   \* "IO"
    <<96, <<66, 78>>>>,   \* "BN"
    <<100, <<66, 71>>>>,   \* "BG"
    <<854, <<66, 70>>>>,   \* "BF"
    <<108, <<66, 73>>>>,   \* "BI"
    <<132, <<67, 86>>>>,   \* "CV"
    <<116, <<75, 72>>>>,   \* "KH"
    <<120, <<67, 77>>>>,   \* "CM"
    <<124, <<67, 65>>>>,   \* "CA"
    <<136, <<75, 89>>>>,   \* "KY"
    <<140, <<67, 70>>>>,   \* "CF"
    <<148, <<84, 68>>>>,   \* "TD"
    <<152, <<67, 76>>>>,   \* "CL"
    <<156, <<67, 78>>>>,   \* "CN"
    <<162, <<67, 88>>>>,   \* "CX"
    <<166, <<67, 67>>>>,   \* "CC"
    <<170, <<67, 79>>>>,   \* "CO"
    <<174, <<75, 77>>>>,   \* "KM"
    <<180, <<67, 68>>>>,   \* "CD"
    <<178, <<67, 71>>>>,   \* "CG"
    <<184, <<67, 75>>>>,   \* "CK"
    <<188, <<67, 82>>>>,   \* "CR"
    <<191, <<72, 82>>>>,   \* "HR"
    <<192, <<67, 85>>>>,   \* "CU"
    <<531, <<67, 87>>>>,   \* "CW"
    <<196, <<67, 89>>>>,   \* "CY"
    <<203, <<67, 90>>>>,   \* "CZ"
    <<384, <<67, 73>>>>,   \* "CI"
    <<208, <<68, 75>>>>,   \* "DK"
    <<262, <<68, 74>>>>,   \* "DJ"
    <<212, <<68, 77>>>>,   \* "DM"
    <<214, <<68, 79>>>>,   \* "DO"
    <<218, <<69, 67>>>>,   \* "EC"
    <<818, <<69, 71>>>>,   \* "EG"
    <<222, <<83, 86>>>>,   \* "SV"
    <<226, <<71, 81>>>>,   \* "GQ"
    <<232, <<69, 82>>>>,   \* "ER"
    <<233, <<69, 69>>>>,   \* "EE"
    <<748, <<83, 90>>>>,   \* "SZ"
    <<231, <<69, 84>>>>,   \* "ET"
    <<238, <<70, 75>>>>,   \* "FK"
    <<234, <<70, 79>>>>,   \* "FO"
    <<242, <<70, 74>>>>,   \* "FJ"
    <<246, <<70, 73>>>>,   \* "FI"
    <<250, <<70, 82>>>>,   \* "FR"
    <<254, <<71, 70>>>>,   \* "GF"
    <<258, <<80, 70>>>>,   \* "PF"
    <<260, <<84, 70>>>>,   \* "TF"
    <<266, <<71, 65>>>>,   \* "GA"
    <<270, <<71, 77>>>>,   \* "GM"
    <<268, <<71, 69>>>>,   \* "GE"
    <<276, <<68, 69>>>>,   \* "DE"
    <<288, <<71, 72>>>>,   \* "GH"
    <<292, <<71, 73>>>>,   \* "GI"
    <<300, <<71, 82>>>>,   \* "GR"
    <<304, <<71, 76>>>>,   \* "GL"
    <<308, <<71, 68>>>>,   \* "GD"
    <<312, <<71, 80>>>>,   \* "GP"
    <<316, <<71, 85>>>>,   \* "GU"
    <<320, <<71, 84>>>>,   \* "GT"
    <<831, <<71, 71>>>>,   \* "GG"
    <<324, <<71, 78>>>>,   \* "GN"
    <<624, <<71, 87>>>>,   \* "GW"
    <<328, <<71, 89>>>>,   \* "GY"
    <<332, <<72, 84>>>>,   \* "HT"
    <<334, <<72, 77>>>>,   \* "HM"
    <<336, <<86, 65>>>>,   \* "VA"
    <<340, <<72, 78>>>>,   \* "HN"
    <<344, <<72, 75>>>>,   \* "HK"
    <<348, <<72, 85>>>>,   \* "HU"
    <<352, <<73, 83>>>>,   \* "IS"
    <<356, <<73, 78>>>>,   \* "IN"
    <<360, <<73, 68>>>>,   \* "ID"
    <<364, <<73, 82>>>>,   \* "IR"
    <<368, <<73, 81>>>>,   \* "IQ"
    <<372, <<73, 69>>>>,   \* "IE"
    <<833, <<73, 77>>>>,   \* "IM"
    <<376, <<73, 76>>>>,   \* "IL"
    <<380, <<73, 84>>>>,   \* "IT"
    <<388, <<74, 77>>>>,   \* "JM"
    <<392, <<74, 80>>>>,   \* "JP"
    <<832, <<74, 69>>>>,   \* "JE"
    <<400, <<74, 79>>>>,   \* "JO"
    <<398, <<75, 90>>>>,   \* "KZ"
    <<404, <<75, 69>>>>,   \* "KE"
    <<296, <<75, 73>>>>,   \* "KI"
    <<408, <<75, 80>>>>,   \* "KP"
    <<410, <<75, 82>>>>,   \* "KR"
    <<414, <<75, 87>>>>,   \* "KW"
    <<417, <<75, 71>>>>,   \* "KG"
    <<418, <<76, 65>>>>,   \* "LA"
    <<428, <<76, 86>>>>,   \* "LV"
    <<422, <<76, 66>>>>,   \* "LB"
    <<426, <<76, 83>>>>,   \* "LS"
    <<430, <<76, 82>>>>,   \* "LR"
    <<434, <<76, 89>>>>,   \* "LY"
    <<438, <<76, 73>>>>,   \* "LI"
    <<440, <<76, 84>>>>,   \* "LT"
    <<442, <<76, 85>>>>,   \* "LU"
    <<446, <<77, 79>>>>,   \* "MO"
    <<450, <<77, 71>>>>,   \* "MG"
    <<454, <<77, 87>>>>,   \* "MW"
    <<458, <<77, 89>>>>,   \* "MY"
    <<462, <<77, 86>>>>,   \* "MV"
    <<466, <<77, 76>>>>,   \* "ML"
    <<470, <<77, 84>>>>,   \* "MT"
    <<584, <<77, 72>>>>,   \* "MH"
    <<474, <<77, 81>>>>,   \* "MQ"
    <<478, <<77, 82>>>>,   \* "MR"
    <<480, <<77, 85>>>>,   \* "MU"
    <<175, <<89, 84>>>>,   \* "YT"
    <<484, <<77, 88>>>>,   \* "MX"
    <<583, <<70, 77>>>>,   \* "FM"
    <<498, <<77, 68>>>>,   \* "MD"
    <<492, <<77, 67>>>>,   \* "MC"
    <<496, <<77, 78>>>>,   \* "MN"
    <<499, <<77, 69>>>>,   \* "ME"
    <<500, <<77, 83>>>>,   \* "MS"
    <<504, <<77, 65>>>>,   \* "MA"
    <<508, <<77, 90>>>>,   \* "MZ"
    <<104, <<77, 77>>>>,   \* "MM"
    <<516, <<78, 65>>>>,   \* "NA"
    <<520, <<78, 82>>>>,   \* "NR"
    <<524, <<78, 80>>>>,   \* "NP"
    <<528, <<78, 76>>>>,   \* "NL"
    <<540, <<78, 67>>>>,   \* "NC"
    <<554, <<78, 90>>>>,   \* "NZ"
    <<558, <<78, 73>>>>,   \* "NI"
    <<562, <<78, 69>>>>,   \* "NE"
    <<566, <<78, 71>>>>,   \* "NG"
    <<570, <<78, 85>>>>,   \* "NU"
    <<574, <<78, 70>>>>,   \* "NF"
    <<580, <<77, 80>>>>,   \* "MP"
    <<578, <<78, 79>>>>,   \* "NO"
    <<512, <<79, 77>>>>,   \* "OM"
    <<586, <<80, 75>>>>,   \* "PK"
    <<585, <<80, 87>>>>,   \* "PW"
    <<275, <<80, 83>>>>,   \* "PS"
    <<591, <<80, 65>>>>,   \* "PA"
    <<598, <<80, 71>>>>,   \* "PG"
    <<600, <<80, 89>>>>,   \* "PY"
    <<604, <<80, 69>>>>,   \* "PE"
    <<608, <<80, 72>>>>,   \* "PH"
    <<612, <<80, 78>>>>,   \* "PN"
    <<616, <<80, 76>>>>,   \* "PL"
    <<620, <<80, 84>>>>,   \* "PT"
    <<630, <<80, 82>>>>,   \* "PR"
    <<634, <<81, 65>>>>,   \* "QA"
    <<807, <<77, 75>>>>,   \* "MK"
    <<642, <<82, 79>>>>,   \* "RO"
    <<643, <<82, 85>>>>,   \* "RU"
    <<646, <<82, 87>>>>,   \* "RW"
    <<638, <<82, 69>>>>,   \* "RE"
    <<652, <<66, 76>>>>,   \* "BL"
    <<654, <<83, 72>>>>,   \* "SH"
    <<659, <<75, 78>>>>,   \* "KN"
    <<662, <<76, 67>>>>,   \* "LC"
    <<663, <<77, 70>>>>,   \* "MF"
    <<666, <<80, 77>>>>,   \* "PM"
    <<670, <<86, 67>>>>,   \* "VC"
    <<882, <<87, 83>>>>,   \* "WS"
    <<674, <<83, 77>>>>,   \* "SM"
    <<678, <<83, 84>>>>,   \* "ST"
    <<682, <<83, 65>>>>,   \* "SA"
    <<686, <<83, 78>>>>,   \* "SN"
    <<688, <<82, 83>>>>,   \* "RS"
    <<690, <<83, 67>>>>,   \* "SC"
    <<694, <<83, 76>>>>,   \* "SL"
    <<702, <<83, 71>>>>,   \* "SG"
    <<534, <<83, 88>>>>,   \* "SX"
    <<703, <<83, 75>>>>,   \* "SK"
    <<705, <<83, 73>>>>,   \* "SI"
    <<90, <<83, 66>>>>,   \* "SB"
    <<706, <<83, 79>>>>,   \* "SO"
    <<710, <<90, 65>>>>,   \* "ZA"
    <<239, <<71, 83>>>>,   \* "GS"
    <<728, <<83, 83>>>>,   \* "SS"
    <<724, <<69, 83>>>>,   \* "ES"
    <<144, <<76, 75>>>>,   \* "LK"
    <<729, <<83, 68>>>>,   \* "SD"
    <<740, <<83, 82>>>>,   \* "SR"
    <<744, <<83, 74>>>>,   \* "SJ"
    <<752, <<83, 69>>>>,   \* "SE"
    <<756, <<67, 72>>>>,   \* "CH"
    <<760, <<83, 89>>>>,   \* "SY"
    <<158, <<84, 87>>>>,   \* "TW"
    <<762, <<84, 74>>>>,   \* "TJ"
    <<834, <<84, 90>>>>,   \* "TZ"
    <<764, <<84, 72>>>>,   \* "TH"
    <<626, <<84, 76>>>>,   \* "TL"
    <<768, <<84, 71>>>>,   \* "TG"
    <<772, <<84, 75>>>>,   \* "TK"
    <<776, <<84, 79>>>>,   \* "TO"
    <<780, <<84, 84>>>>,   \* "TT"
    <<788, <<84, 78>>>>,   \* "TN"
    <<792, <<84, 82>>>>,   \* "TR"
    <<795, <<84, 77>>>>,   \* "TM"
    <<796, <<84, 67>>>>,   \* "TC"
    <<798, <<84, 86>>>>,   \* "TV"
    <<800, <<85, 71>>>>,   \* "UG"
    <<804, <<85, 65>>>>,   \* "UA"
    <<784, <<65, 69>>>>,   \* "AE"
    <<826, <<71, 66>>>>,   \* "GB"
    <<581, <<85, 77>>>>,   \* "UM"
    <<840, <<85, 83>>>>,   \* "US"
    <<858, <<85, 89>>>>,   \* "UY"
    <<860, <<85, 90>>>>,   \* "UZ"
    <<548, <<86, 85>>>>,   \* "VU"
    <<862, <<86, 69>>>>,   \* "VE"
    <<704, <<86, 78>>>>,   \* "VN"
    <<92, <<86, 71>>>>,   \* "VG"
    <<850, <<86, 73>>>>,   \* "VI"
    <<876, <<87, 70>>>>,   \* "WF"
    <<732, <<69, 72>>>>,   \* "EH"
    <<887, <<89, 69>>>>,   \* "YE"
    <<894, <<90, 77>>>>,   \* "ZM"
    <<716, <<90, 87>>>>,   \* "ZW"
    <<248, <<65, 88>>>>   \* "AX"
>>

\* the arms of get_region_helper, in source order
get_region_helper_arms == <<
    <<<<65, 70>>, "Af">>,   \* "AF"
    <<<<65, 76>>, "Al">>,   \* "AL"
    <<<<68, 90>>, "Dz">>,   \* "DZ"
    <<<<65, 83>>, "As">>,   \* "AS"
    <<<<65, 68>>, "Ad">>,   \* "AD"
    <<<<65, 79>>, "Ao">>,   \* "AO"
    <<<<65, 73>>, "Ai">>,   \* "AI"
    <<<<65, 81>>, "Aq">>,   \* "AQ"
    <<<<65, 71>>, "Ag">>,   \* "AG"
    <<<<65, 82>>, "Ar">>,   \* "AR"
    <<<<65, 77>>, "Am">>,   \* "AM"
    <<<<65, 87>>, "Aw">>,   \* "AW"
    <<<<65, 85>>, "Au">>,   \* "AU"
    <<<<65, 84>>, "At">>,   \* "AT"
    <<<<65, 90>>, "Az">>,   \* "AZ"
    <<<<66, 83>>, "Bs">>,   \* "BS"
    <<<<66, 72>>, "Bh">>,   \* "BH"
    <<<<66, 68>>, "Bd">>,   \* "BD"
    <<<<66, 66>>, "Bb">>,   \* "BB"
    <<<<66, 89>>, "By">>,   \* "BY"
    <<<<66, 69>>, "Be">>,   \* "BE"
    <<<<66, 90>>, "Bz">>,   \* "BZ"
    <<<<66, 74>>, "Bj">>,   \* "BJ"
    <<<<66, 77>>, "Bm">>,   \* "BM"
    <<<<66, 84>>, "Bt">>,   \* "BT"
    <<<<66, 79>>, "Bo">>,   \* "BO"
    <<<<66, 81>>, "Bq">>,   \* "BQ"
    <<<<66, 65>>, "Ba">>,   \* "BA"
    <<<<66, 87>>, "Bw">>,   \* "BW"
    <<<<66, 86>>, "Bv">>,   \* "BV"
    <<<<66, 82>>, "Br">>,   \* "BR"
    <<<<73, 79>>, "Io">>,   \* "IO"
    <<<<66, 78>>, "Bn">>,   \* "BN"
    <<<<66, 71>>, "Bg">>,   \* "BG"
    <<<<66, 70>>, "Bf">>,   \* "BF"
    <<<<66, 73>>, "Bi">>,   \* "BI"
    <<<<67, 86>>, "Cv">>,   \* "CV"
    <<<<75, 72>>, "Kh">>,   \* "KH"
    <<<<67, 77>>, "Cm">>,   \* "CM"
    <<<<67, 65>>, "Ca">>,   \* "CA"
    <<<<75, 89>>, "Ky">>,   \* "KY"
    <<<<67, 70>>, "Cf">>,   \* "CF"
    <<<<84, 68>>, "Td">>,   \* "TD"
    <<<<67, 76>>, "Cl">>,   \* "CL"
    <<<<67, 78>>, "Cn">>,   \* "CN"
    <<<<67, 88>>, "Cx">>,   \* "CX"
    <<<<67, 67>>, "Cc">>,   \* "CC"
    <<<<67, 79>>, "Cd">>   \* "CO"
>>

\* the arms of second_get_region_helper, in source order
second_get_region_helper_arms == <<
    <<<<75, 77>>, "Km">>,   \* "KM"
    <<<<67, 68>>, "Cd">>,   \* "CD"
    <<<<67, 71>>, "Cg">>,   \* "CG"
    <<<<67, 75>>, "Ck">>,   \* "CK"
    <<<<67, 82>>, "Cr">>,   \* "CR"
    <<<<72, 82>>, "Hr">>,   \* "HR"
    <<<<67, 85>>, "Cu">>,   \* "CU"
    <<<<67, 87>>, "Cw">>,   \* "CW"
    <<<<67, 89>>, "Cy">>,   \* "CY"
    <<<<67, 90>>, "Cz">>,   \* "CZ"
    <<<<67, 73>>, "Ci">>,   \* "CI"
    <<<<68, 75>>, "Dk">>,   \* "DK"
    <<<<68, 74>>, "Dj">>,   \* "DJ"
    <<<<68, 77>>, "Dm">>,   \* "DM"
    <<<<68, 79>>, "Do">>,   \* "DO"
    <<<<69, 67>>, "Ec">>,   \* "EC"
    <<<<69, 71>>, "Eg">>,   \* "EG"
    <<<<83, 86>>, "Sv">>,   \* "SV"
    <<<<71, 81>>, "Gq">>,   \* "GQ"
    <<<<69, 82>>, "Er">>,   \* "ER"
    <<<<69, 69>>, "Ee">>,   \* "EE"
    <<<<83, 90>>, "Sz">>,   \* "SZ"
    <<<<69, 84>>, "Et">>,   \* "ET"
    <<<<70, 75>>, "Fk">>   \* "FK"
>>

\* the arms of third_get_region_helper, in source order
third_get_region_helper_arms == <<
    <<<<70, 79>>, "Fo">>,   \* "FO"
    <<<<70, 74>>, "Fj">>,   \* "FJ"
    <<<<70, 73>>, "Fi">>,   \* "FI"
    <<<<70, 82>>, "Fr">>,   \* "FR"
    <<<<71, 70>>, "Gf">>,   \* "GF"
    <<<<80, 70>>, "Pf">>,   \* "PF"
    <<<<84, 70>>, "Tf">>,   \* "TF"
    <<<<71, 65>>, "Ga">>,   \* "GA"
    <<<<71, 77>>, "Gm">>,   \* "GM"
    <<<<71, 69>>, "Ge">>,   \* "GE"
    <<<<68, 69>>, "De">>,   \* "DE"
    <<<<71, 72>>, "Gh">>,   \* "GH"
    <<<<71, 73>>, "Gi">>,   \* "GI"
    <<<<71, 82>>, "Gr">>,   \* "GR"
    <<<<71, 76>>, "Gl">>,   \* "GL"
    <<<<71, 68>>, "Gd">>,   \* "GD"
    <<<<71, 80>>, "Gp">>,   \* "GP"
    <<<<71, 85>>, "Gu">>,   \* "GU"
    <<<<71, 84>>, "Gt">>,   \* "GT"
    <<<<71, 71>>, "Gg">>,   \* "GG"
    <<<<71, 78>>, "Gn">>,   \* "GN"
    <<<<71, 87>>, "Gw">>,   \* "GW"
    <<<<71, 89>>, "Gy">>,   \* "GY"
    <<<<72, 84>>, "Ht">>   \* "HT"
>>

\* the arms of forth_get_region_helper, in source order
forth_get_region_helper_arms == <<
    <<<<72, 77>>, "Hm">>,   \* "HM"
    <<<<86, 65>>, "Va">>,   \* "VA"
    <<<<72, 78>>, "Hn">>,   \* "HN"
    <<<<72, 75>>, "Hk">>,   \* "HK"
    <<<<72, 85>>, "Hu">>,   \* "HU"
    <<<<73, 83>>, "Is">>,   \* "IS"
    <<<<73, 78>>, "In">>,   \* "IN"
    <<<<73, 68>>, "Id">>,   \* "ID"
    <<<<73, 82>>, "Ir">>,   \* "IR"
    <<<<73, 81>>, "Iq">>,   \* "IQ"
    <<<<73, 69>>, "Ie">>,   \* "IE"
    <<<<73, 77>>, "Im">>,   \* "IM"
    <<<<73, 76>>, "Il">>,   \* "IL"
    <<<<73, 84>>, "It">>,   \* "IT"
    <<<<74, 77>>, "Jm">>,   \* "JM"
    <<<<74, 80>>, "Jp">>,   \* "JP"
    <<<<74, 69>>, "Je">>,   \* "JE"
    <<<<74, 79>>, "Jo">>,   \* "JO"
    <<<<75, 90>>, "Kz">>,   \* "KZ"
    <<<<75, 69>>, "Ke">>,   \* "KE"
    <<<<75, 73>>, "Ki">>,   \* "KI"
    <<<<75, 80>>, "Kp">>,   \* "KP"
    <<<<75, 82>>, "Kr">>,   \* "KR"
    <<<<75, 87>>, "Kw">>   \* "KW"
>>

\* the arms of fifth_get_region_helper, in source order
fifth_get_region_helper_arms == <<
    <<<<75, 71>>, "Kg">>,   \* "KG"
    <<<<76, 65>>, "La">>,   \* "LA"
    <<<<76, 86>>, "Lv">>,   \* "LV"
    <<<<76, 66>>, "Lb">>,   \* "LB"
    <<<<76, 83>>, "Ls">>,   \* "LS"
    <<<<76, 82>>, "Lr">>,   \* "LR"
    <<<<76, 89>>, "Ly">>,   \* "LY"
    <<<<76, 73>>, "Li">>,   \* "LI"
    <<<<76, 84>>, "Lt">>,   \* "LT"
    <<<<76, 85>>, "Lu">>,   \* "LU"
    <<<<77, 79>>, "Mo">>,   \* "MO"
    <<<<77, 71>>, "Mg">>,   \* "MG"
    <<<<77, 87>>, "Mw">>,   \* "MW"
    <<<<77, 89>>, "My">>,   \* "MY"
    <<<<77, 86>>, "Mv">>,   \* "MV"
    <<<<77, 76>>, "Ml">>,   \* "ML"
    <<<<77, 84>>, "Mt">>,   \* "MT"
    <<<<77, 72>>, "Mh">>,   \* "MH"
    <<<<77, 81>>, "Mq">>,   \* "MQ"
    <<<<77, 82>>, "Mr">>,   \* "MR"
    <<<<77, 85>>, "Mu">>,   \* "MU"
    <<<<89, 84>>, "Yt">>,   \* "YT"
    <<<<77, 88>>, "Mx">>,   \* "MX"
    <<<<70, 77>>, "Fm">>   \* "FM"
>>

\* the arms of sixth_get_region_helper, in source order
sixth_get_region_helper_arms == <<
    <<<<77, 68>>, "Md">>,   \* "MD"
    <<<<77, 67>>, "Mc">>,   \* "MC"
    <<<<77, 78>>, "Mn">>,   \* "MN"
    <<<<77, 69>>, "Me">>,   \* "ME"
    <<<<77, 83>>, "Ms">>,   \* "MS"
    <<<<77, 65>>, "Ma">>,   \* "MA"
    <<<<77, 90>>, "Mz">>,   \* "MZ"
    <<<<77, 77>>, "Mm">>,   \* "MM"
    <<<<78, 65>>, "Na">>,   \* "NA"
    <<<<78, 82>>, "Nr">>,   \* "NR"
    <<<<78, 80>>, "Np">>,   \* "NP"
    <<<<78, 76>>, "Nl">>,   \* "NL"
    <<<<78, 67>>, "Nc">>,   \* "NC"
    <<<<78, 90>>, "Nz">>,   \* "NZ"
    <<<<78, 73>>, "Ni">>,   \* "NI"
    <<<<78, 69>>, "Ne">>,   \* "NE"
    <<<<78, 71>>, "Ng">>,   \* "NG"
    <<<<78, 85>>, "Nu">>,   \* "NU"
    <<<<78, 70>>, "Nf">>,   \* "NF"
    <<<<77, 80>>, "Mp">>,   \* "MP"
    <<<<78, 79>>, "No">>,   \* "NO"
    <<<<79, 77>>, "Om">>,   \* "OM"
    <<<<80, 75>>, "Pk">>,   \* "PK"
    <<<<80, 87>>, "Pw">>   \* "PW"
>>

\* the arms of seventh_get_region_helper, in source order
seventh_get_region_helper_arms == <<
    <<<<80, 83>>, "Ps">>,   \* "PS"
    <<<<80, 65>>, "Pa">>,   \* "PA"
    <<<<80, 71>>, "Pg">>,   \* "PG"
    <<<<80, 89>>, "Py">>,   \* "PY"
    <<<<80, 69>>, "Pe">>,   \* "PE"
    <<<<80, 72>>, "Ph">>,   \* "PH"
    <<<<80, 78>>, "Pn">>,   \* "PN"
    <<<<80, 76>>, "Pl">>,   \* "PL"
    <<<<80, 84>>, "Pt">>,   \* "PT"
    <<<<80, 82>>, "Pr">>,   \* "PR"
    <<<<81, 65>>, "Qa">>,   \* "QA"
    <<<<77, 75>>, "Mk">>,   \* "MK"
    <<<<82, 79>>, "Ro">>,   \* "RO"
    <<<<82, 85>>, "Ru">>,   \* "RU"
    <<<<82, 87>>, "Rw">>,   \* "RW"
    <<<<82, 69>>, "Re">>,   \* "RE"
    <<<<66, 76>>, "Bl">>,   \* "BL"
    <<<<83, 72>>, "Sh">>,   \* "SH"
    <<<<75, 78>>, "Kn">>,   \* "KN"
    <<<<76, 67>>, "Lc">>,   \* "LC"
    <<<<77, 70>>, "Mf">>,   \* "MF"
    <<<<80, 77>>, "Pm">>,   \* "PM"
    <<<<86, 67>>, "Vc">>,   \* "VC"
    <<<<87, 83>>, "Ws">>   \* "WS"
>>

\* the arms of eight_get_region_helper, in source order
eight_get_region_helper_arms == <<
    <<<<83, 77>>, "Sm">>,   \* "SM"
    <<<<83, 84>>, "St">>,   \* "ST"
    <<<<83, 65>>, "Sa">>,   \* "SA"
    <<<<83, 78>>, "Sn">>,   \* "SN"
    <<<<82, 83>>, "Rs">>,   \* "RS"
    <<<<83, 67>>, "Sc">>,   \* "SC"
    <<<<83, 76>>, "Sl">>,   \* "SL"
    <<<<83, 71>>, "Sg">>,   \* "SG"
    <<<<83, 88>>, "Sx">>,   \* "SX"
    <<<<83, 75>>, "Sk">>,   \* "SK"
    <<<<83, 73>>, "Si">>,   \* "SI"
    <<<<83, 66>>, "Sb">>,   \* "SB"
    <<<<83, 79>>, "So">>,   \* "SO"
    <<<<90, 65>>, "Za">>,   \* "ZA"
    <<<<71, 83>>, "Gs">>,   \* "GS"
    <<<<83, 83>>, "Ss">>,   \* "SS"
    <<<<69, 83>>, "Es">>,   \* "ES"
    <<<<76, 75>>, "Lk">>,   \* "LK"
    <<<<83, 68>>, "Sd">>,   \* "SD"
    <<<<83, 82>>, "Sr">>,   \* "SR"
    <<<<83, 74>>, "Sj">>,   \* "SJ"
    <<<<83, 69>>, "Se">>,   \* "SE"
    <<<<67, 72>>, "Ch">>,   \* "CH"
    <<<<83, 89>>, "Sy">>   \* "SY"
>>

\* the arms of ninth_get_region_helper, in source order
ninth_get_region_helper_arms == <<
    <<<<84, 87>>, "Tw">>,   \* "TW"
    <<<<84, 74>>, "Tj">>,   \* "TJ"
    <<<<84, 90>>, "Tz">>,   \* "TZ"
    <<<<84, 72>>, "Th">>,   \* "TH"
    <<<<84, 76>>, "Tl">>,   \* "TL"
    <<<<84, 71>>, "Tg">>,   \* "TG"
    <<<<84, 75>>, "Tk">>,   \* "TK"
    <<<<84, 79>>, "To">>,   \* "TO"
    <<<<84, 84>>, "Tt">>,   \* "TT"
    <<<<84, 78>>, "Tn">>,   \* "TN"
    <<<<84, 82>>, "Tr">>,   \* "TR"
    <<<<84, 77>>, "Tm">>,   \* "TM"
    <<<<84, 67>>, "Tc">>,   \* "TC"
    <<<<84, 86>>, "Tv">>,   \* "TV"
    <<<<85, 71>>, "Ug">>,   \* "UG"
    <<<<85, 65>>, "Ua">>,   \* "UA"
    <<<<65, 69>>, "Ae">>,   \* "AE"
    <<<<71, 66>>, "Gb">>,   \* "GB"
    <<<<85, 77>>, "Um">>,   \* "UM"
    <<<<85, 83>>, "Us">>,   \* "US"
    <<<<85, 89>>, "Uy">>,   \* "UY"
    <<<<85, 90>>, "Uz">>,   \* "UZ"
    <<<<86, 85>>, "Vu">>,   \* "VU"
    <<<<86, 69>>, "Ve">>,   \* "VE"
    <<<<86, 78>>, "Vn">>,   \* "VN"
    <<<<86, 71>>, "Vg">>,   \* "VG"
    <<<<86, 73>>, "Vi">>,   \* "VI"
    <<<<87, 70>>, "Wf">>,   \* "WF"
    <<<<69, 72>>, "Eh">>,   \* "EH"
    <<<<89, 69>>, "Ye">>,   \* "YE"
    <<<<90, 77>>, "Zm">>,   \* "ZM"
    <<<<90, 87>>, "Zw">>,   \* "ZW"
    <<<<65, 88>>, "Ax">>   \* "AX"
>>

\* impl Display for Language: per variant, the text written before the region
\* and the text written when the region is Region::Any
LanguageCodes == <<
    <<"Ab", <<97, 98, 95>>, <<97, 98>>>>,   \* "ab_" / "ab"
    <<"Aa", <<97, 97, 95>>, <<97, 97>>>>,   \* "aa_" / "aa"
    <<"Af", <<97, 102, 95>>, <<97, 102>>>>,   \* "af_" / "af"
    <<"Sq", <<115, 113, 95>>, <<115, 113>>>>,   \* "sq_" / "sq"
    <<"Am", <<97, 109, 95>>, <<97, 109>>>>,   \* "am_" / "am"
    <<"Ar", <<97, 114, 95>>, <<97, 114>>>>,   \* "ar_" / "ar"
    <<"Hy", <<104, 121, 95>>, <<104, 121>>>>,   \* "hy_" / "hy"
    <<"As", <<97, 115, 95>>, <<97, 115>>>>,   \* "as_" / "as"
    <<"Ay", <<97, 121, 95>>, <<97, 121>>>>,   \* "ay_" / "ay"
    <<"Az", <<97, 122, 95>>, <<97, 122>>>>,   \* "az_" / "az"
    <<"Ba", <<98, 97, 95>>, <<98, 97>>>>,   \* "ba_" / "ba"
    <<"Eu", <<101, 117, 95>>, <<101, 117>>>>,   \* "eu_" / "eu"
    <<"Bn", <<98, 110, 95>>, <<98, 110>>>>,   \* "bn_" / "bn"
    <<"Dz", <<100, 122, 95>>, <<100, 122>>>>,   \* "dz_" / "dz"
    <<"Bh", <<98, 104, 95>>, <<98, 104>>>>,   \* "bh_" / "bh"
    <<"Bi", <<98, 105, 95>>, <<98, 105>>>>,   \* "bi_" / "bi"
    <<"Br", <<98, 114, 95>>, <<98, 114>>>>,   \* "br_" / "br"
    <<"Bg", <<98, 103, 95>>, <<98, 103>>>>,   \* "bg_" / "bg"
    <<"My", <<109, 121, 95>>, <<109, 121>>>>,   \* "my_" / "my"
    <<"Be", <<98, 101, 95>>, <<98, 101>>>>,   \* "be_" / "be"
    <<"Km", <<107, 109, 95>>, <<107, 109>>>>,   \* "km_" / "km"
    <<"Ca", <<99, 97, 95>>, <<99, 97>>>>,   \* "ca_" / "ca"
    <<"Zh", <<122, 104, 95>>, <<122, 104>>>>,   \* "zh_" / "zh"
    <<"Co", <<99, 111, 95>>, <<99, 111>>>>,   \* "co_" / "co"
    <<"Hr", <<104, 114, 95>>, <<104, 114>>>>,   \* "hr_" / "hr"
    <<"Cs", <<99, 115, 95>>, <<99, 115>>>>,   \* "cs_" / "cs"
    <<"Da", <<100, 97, 95>>, <<100, 97>>>>,   \* "da_" / "da"
    <<"Nl", <<110, 108, 95>>, <<110, 108>>>>,   \* "nl_" / "nl"
    <<"En", <<101, 110, 95>>, <<101, 110>>>>,   \* "en_" / "en"
    <<"Eo", <<101, 111, 95>>, <<101, 111>>>>,   \* "eo_" / "eo"
    <<"Et", <<101, 116, 95>>, <<101, 116>>>>,   \* "et_" / "et"
    <<"Fo", <<102, 111, 95>>, <<102, 111>>>>,   \* "fo_" / "fo"
    <<"Fj", <<102, 106, 95>>, <<102, 106>>>>,   \* "fj_" / "fj"
    <<"Fi", <<102, 105, 95>>, <<102, 105>>>>,   \* "fi_" / "fi"
    <<"Fr", <<102, 114, 95>>, <<102, 114>>>>,   \* "fr_" / "fr"
    <<"Fy", <<102, 121, 95>>, <<102, 121>>>>,   \* "fy_" / "fy"
    <<"Gd", <<103, 100, 95>>, <<103, 100>>>>,   \* "gd_" / "gd"
    <<"Gl", <<103, 108, 95>>, <<103, 108>>>>,   \* "gl_" / "gl"
    <<"Ka", <<107, 97, 95>>, <<107, 97>>>>,   \* "ka_" / "ka"
    <<"De", <<100, 101, 95>>, <<100, 101>>>>,   \* "de_" / "de"
    <<"El", <<101, 108, 95>>, <<101, 108>>>>,   \* "el_" / "el"
    <<"Kl", <<107, 108, 95>>, <<107, 108>>>>,   \* "kl_" / "kl"
    <<"Gn", <<103, 110, 95>>, <<103, 110>>>>,   \* "gn_" / "gn"
    <<"Gu", <<103, 117, 95>>, <<103, 117>>>>,   \* "gu_" / "gu"
    <<"Ha", <<104, 97, 95>>, <<104, 97>>>>,   \* "ha_" / "ha"
    <<"Iw", <<105, 119, 95>>, <<105, 119>>>>,   \* "iw_" / "iw"
    <<"Hi", <<104, 105, 95>>, <<104, 105>>>>,   \* "hi_" / "hi"
    <<"Hu", <<104, 117, 95>>, <<104, 117>>>>,   \* "hu_" / "hu"
    <<"Is", <<105, 115, 95>>, <<105, 115>>>>,   \* "is_" / "is"
    <<"In", <<105, 110, 95>>, <<105, 110>>>>,   \* "in_" / "in"
    <<"Ia", <<105, 97, 95>>, <<105, 97>>>>,   \* "ia_" / "ia"
    <<"Ie", <<105, 101, 95>>, <<105, 101>>>>,   \* "ie_" / "ie"
    <<"Ik", <<105, 107, 95>>, <<105, 107>>>>,   \* "ik_" / "ik"
    <<"Ga", <<103, 97, 95>>, <<103, 97>>>>,   \* "ga_" / "ga"
    <<"It", <<105, 116, 95>>, <<105, 116>>>>,   \* "it_" / "it"
    <<"Ja", <<106, 97, 95>>, <<106, 97>>>>,   \* "ja_" / "ja"
    <<"Jw", <<106, 119, 95>>, <<106, 119>>>>,   \* "jw_" / "jw"
    <<"Kn", <<107, 110, 95>>, <<107, 110>>>>,   \* "kn_" / "kn"
    <<"Ks", <<107, 115, 95>>, <<107, 115>>>>,   \* "ks_" / "ks"
    <<"Kk", <<107, 107, 95>>, <<107, 107>>>>,   \* "kk_" / "kk"
    <<"Rw", <<114, 119, 95>>, <<114, 119>>>>,   \* "rw_" / "rw"
    <<"Ky", <<107, 121, 95>>, <<107, 121>>>>,   \* "ky_" / "ky"
    <<"Rn", <<114, 110, 95>>, <<114, 110>>>>,   \* "rn_" / "rn"
    <<"Ko", <<107, 111, 95>>, <<107, 111>>>>,   \* "ko_" / "ko"
    <<"Ku", <<107, 117, 95>>, <<107, 117>>>>,   \* "ku_" / "ku"
    <<"Lo", <<108, 111, 95>>, <<108, 111>>>>,   \* "lo_" / "lo"
    <<"La", <<108, 97, 95>>, <<108, 97>>>>,   \* "la_" / "la"
    <<"Lv", <<108, 118, 95>>, <<108, 118>>>>,   \* "lv_" / "lv"
    <<"Ln", <<108, 110, 95>>, <<108, 110>>>>,   \* "ln_" / "ln"
    <<"Lt", <<108, 116, 95>>, <<108, 116>>>>,   \* "lt_" / "lt"
    <<"Mk", <<109, 107, 95>>, <<109, 107>>>>,   \* "mk_" / "mk"
    <<"Mg", <<109, 103, 95>>, <<109, 103>>>>,   \* "mg_" / "mg"
    <<"Ms", <<109, 115, 95>>, <<109, 115>>>>,   \* "ms_" / "ms"
    <<"Ml", <<109, 108, 95>>, <<109, 108>>>>,   \* "ml_" / "ml"
    <<"Mt", <<109, 116, 95>>, <<109, 116>>>>,   \* "mt_" / "mt"
    <<"Mi", <<109, 105, 95>>, <<109, 105>>>>,   \* "mi_" / "mi"
    <<"Mr", <<109, 114, 95>>, <<109, 114>>>>,   \* "mr_" / "mr"
    <<"Mo", <<109, 111, 95>>, <<109, 111>>>>,   \* "mo_" / "mo"
    <<"Mn", <<109, 110, 95>>, <<109, 110>>>>,   \* "mn_" / "mn"
    <<"Na", <<110, 97, 95>>, <<110, 97>>>>,   \* "na_" / "na"
    <<"Ne", <<110, 101, 95>>, <<110, 101>>>>,   \* "ne_" / "ne"
    <<"No", <<110, 111, 95>>, <<110, 111>>>>,   \* "no_" / "no"
    <<"Oc", <<111, 99, 95>>, <<111, 99>>>>,   \* "oc_" / "oc"
    <<"Or", <<111, 114, 95>>, <<111, 114>>>>,   \* "or_" / "or"
    <<"Om", <<111, 109, 95>>, <<111, 109>>>>,   \* "om_" / "om"
    <<"Ps", <<112, 115, 95>>, <<112, 115>>>>,   \* "ps_" / "ps"
    <<"Fa", <<102, 97, 95>>, <<102, 97>>>>,   \* "fa_" / "fa"
    <<"Pl", <<112, 108, 95>>, <<112, 108>>>>,   \* "pl_" / "pl"
    <<"Pt", <<112, 116, 95>>, <<112, 116>>>>,   \* "pt_" / "pt"
    <<"Pa", <<112, 100, 95>>, <<112, 97>>>>,   \* "pd_" / "pa"
    <<"Qu", <<113, 117, 95>>, <<113, 117>>>>,   \* "qu_" / "qu"
    <<"Rm", <<114, 109, 95>>, <<114, 109>>>>,   \* "rm_" / "rm"
    <<"Ro", <<114, 111, 95>>, <<114, 111>>>>,   \* "ro_" / "ro"
    <<"Ru", <<114, 117, 95>>, <<114, 117>>>>,   \* "ru_" / "ru"
    <<"Sm", <<115, 109, 95>>, <<115, 109>>>>,   \* "sm_" / "sm"
    <<"Sg", <<115, 103, 95>>, <<115, 103>>>>,   \* "sg_" / "sg"
    <<"Sa", <<115, 97, 95>>, <<115, 97>>>>,   \* "sa_" / "sa"
    <<"Sr", <<115, 114, 95>>, <<115, 114>>>>,   \* "sr_" / "sr"
    <<"Sh", <<115, 104, 95>>, <<115, 104>>>>,   \* "sh_" / "sh"
    <<"St", <<115, 116, 95>>, <<115, 116>>>>,   \* "st_" / "st"
    <<"Tn", <<116, 110, 95>>, <<116, 110>>>>,   \* "tn_" / "tn"
    <<"Sn", <<115, 110, 95>>, <<115, 110>>>>,   \* "sn_" / "sn"
    <<"Sd", <<115, 100, 95>>, <<115, 100>>>>,   \* "sd_" / "sd"
    <<"Si", <<115, 105, 95>>, <<115, 105>>>>,   \* "si_" / "si"
    <<"Ss", <<115, 115, 95>>, <<115, 115>>>>,   \* "ss_" / "ss"
    <<"Sk", <<115, 107, 95>>, <<115, 107>>>>,   \* "sk_" / "sk"
    <<"Sl", <<83, 108, 95>>, <<83, 108>>>>,   \* "Sl_" / "Sl"
    <<"So", <<115, 111, 95>>, <<115, 111>>>>,   \* "so_" / "so"
    <<"Es", <<101, 115, 95>>, <<101, 115>>>>,   \* "es_" / "es"
    <<"Su", <<115, 117, 95>>, <<115, 117>>>>,   \* "su_" / "su"
    <<"Sw", <<115, 119, 95>>, <<115, 119>>>>,   \* "sw_" / "sw"
    <<"Sv", <<115, 118, 95>>, <<115, 118>>>>,   \* "sv_" / "sv"
    <<"Tl", <<116, 108, 95>>, <<116, 108>>>>,   \* "tl_" / "tl"
    <<"Tg", <<116, 103, 95>>, <<116, 103>>>>,   \* "tg_" / "tg"
    <<"Ta", <<116, 97, 95>>, <<116, 97>>>>,   \* "ta_" / "ta"
    <<"Tt", <<116, 116, 95>>, <<116, 116>>>>,   \* "tt_" / "tt"
    <<"Te", <<116, 101, 95>>, <<116, 101>>>>,   \* "te_" / "te"
    <<"Th", <<116, 104, 95>>, <<116, 104>>>>,   \* "th_" / "th"
    <<"Bo", <<98, 111, 95>>, <<98, 111>>>>,   \* "bo_" / "bo"
    <<"Ti", <<116, 105, 95>>, <<116, 105>>>>,   \* "ti_" / "ti"
    <<"To", <<116, 111, 95>>, <<116, 111>>>>,   \* "to_" / "to"
    <<"Ts", <<116, 115, 95>>, <<116, 115>>>>,   \* "ts_" / "ts"
    <<"Tr", <<116, 114, 95>>, <<116, 114>>>>,   \* "tr_" / "tr"
    <<"Tk", <<116, 107, 95>>, <<116, 107>>>>,   \* "tk_" / "tk"
    <<"Tw", <<116, 119, 95>>, <<116, 119>>>>,   \* "tw_" / "tw"
    <<"Uk", <<117, 107, 95>>, <<117, 107>>>>,   \* "uk_" / "uk"
    <<"Ur", <<117, 114, 95>>, <<117, 114>>>>,   \* "ur_" / "ur"
    <<"Uz", <<117, 122, 95>>, <<117, 122>>>>,   \* "uz_" / "uz"
    <<"Vi", <<118, 105, 95>>, <<118, 105>>>>,   \* "vi_" / "vi"
    <<"Vo", <<118, 111, 95>>, <<118, 111>>>>,   \* "vo_" / "vo"
    <<"Cy", <<99, 121, 95>>, <<99, 121>>>>,   \* "cy_" / "cy"
    <<"Wo", <<119, 111, 95>>, <<119, 111>>>>,   \* "wo_" / "wo"
    <<"Xh", <<120, 104, 95>>, <<120, 104>>>>,   \* "xh_" / "xh"
    <<"Ji", <<106, 105, 95>>, <<106, 105>>>>,   \* "ji_" / "ji"
    <<"Yo", <<121, 111, 95>>, <<121, 111>>>>,   \* "yo_" / "yo"
    <<"Zu", <<122, 117, 95>>, <<122, 117>>>>   \* "zu_" / "zu"
>>

\* the arms of get_language_helper, in source order
get_language_helper_arms == <<
    <<<<97, 98>>, "Ab">>,   \* "ab"
    <<<<97, 97>>, "Aa">>,   \* "aa"
    <<<<97, 102>>, "Af">>,   \* "af"
    <<<<115, 113>>, "Sq">>,   \* "sq"
    <<<<97, 109>>, "Am">>,   \* "am"
    <<<<97, 114>>, "Ar">>,   \* "ar"
    <<<<104, 121>>, "Hy">>,   \* "hy"
    <<<<97, 115>>, "As">>,   \* "as"
    <<<<97, 121>>, "Ay">>,   \* "ay"
    <<<<97, 122>>, "Az">>,   \* "az"
    <<<<98, 97>>, "Ba">>,   \* "ba"
    <<<<101, 117>>, "Eu">>,   \* "eu"
    <<<<98, 110>>, "Bn">>,   \* "bn"
    <<<<100, 122>>, "Dz">>,   \* "dz"
    <<<<98, 104>>, "Bh">>,   \* "bh"
    <<<<98, 105>>, "Bi">>,   \* "bi"
    <<<<98, 114>>, "Br">>,   \* "br"
    <<<<98, 103>>, "Bg">>,   \* "bg"
    <<<<109, 121>>, "My">>,   \* "my"
    <<<<98, 101>>, "Be">>,   \* "be"
    <<<<107, 109>>, "Km">>,   \* "km"
    <<<<99, 97>>, "Ca">>,   \* "ca"
    <<<<122, 104>>, "Zh">>,   \* "zh"
    <<<<99, 111>>, "Co">>   \* "co"
>>

\* the arms of second_get_language_helper, in source order
second_get_language_helper_arms == <<
    <<<<104, 114>>, "Hr">>,   \* "hr"
    <<<<99, 115>>, "Cs">>,   \* "cs"
    <<<<100, 97>>, "Da">>,   \* "da"
    <<<<110, 108>>, "Nl">>,   \* "nl"
    <<<<101, 110>>, "En">>,   \* "en"
    <<<<101, 111>>, "Eo">>,   \* "eo"
    <<<<101, 116>>, "Et">>,   \* "et"
    <<<<102, 111>>, "Fo">>,   \* "fo"
    <<<<102, 106>>, "Fj">>,   \* "fj"
    <<<<102, 105>>, "Fi">>,   \* "fi"
    <<<<102, 114>>, "Fr">>,   \* "fr"
    <<<<102, 121>>, "Fy">>,   \* "fy"
    <<<<103, 100>>, "Gd">>,   \* "gd"
    <<<<103, 108>>, "Gl">>,   \* "gl"
    <<<<107, 97>>, "Ka">>,   \* "ka"
    <<<<100, 101>>, "De">>,   \* "de"
    <<<<101, 108>>, "El">>,   \* "el"
    <<<<107, 108>>, "Kl">>,   \* "kl"
    <<<<103, 110>>, "Gn">>,   \* "gn"
    <<<<103, 117>>, "Gu">>,   \* "gu"
    <<<<104, 97>>, "Ha">>,   \* "ha"
    <<<<105, 119>>, "Iw">>,   \* "iw"
    <<<<104, 105>>, "Hi">>,   \* "hi"
    <<<<104, 117>>, "Hu">>   \* "hu"
>>

\* the arms of third_get_language_helper, in source order
third_get_language_helper_arms == <<
    <<<<105, 115>>, "Is">>,   \* "is"
    <<<<105, 110>>, "In">>,   \* "in"
    <<<<105, 97>>, "Ia">>,   \* "ia"
    <<<<105, 101>>, "Ie">>,   \* "ie"
    <<<<105, 107>>, "Ik">>,   \* "ik"
    <<<<103, 97>>, "Ga">>,   \* "ga"
    <<<<105, 116>>, "It">>,   \* "it"
    <<<<106, 97>>, "Ja">>,   \* "ja"
    <<<<106, 119>>, "Jw">>,   \* "jw"
    <<<<107, 110>>, "Kn">>,   \* "kn"
    <<<<107, 115>>, "Ks">>,   \* "ks"
    <<<<107, 107>>, "Kk">>,   \* "kk"
    <<<<114, 119>>, "Rw">>,   \* "rw"
    <<<<107, 121>>, "Ky">>,   \* "ky"
    <<<<114, 110>>, "Rn">>,   \* "rn"
    <<<<107, 111>>, "Ko">>,   \* "ko"
    <<<<107, 117>>, "Ku">>,   \* "ku"
    <<<<108, 111>>, "Lo">>,   \* "lo"
    <<<<108, 97>>, "La">>,   \* "la"
    <<<<108, 118>>, "Lv">>,   \* "lv"
    <<<<108, 110>>, "Ln">>,   \* "ln"
    <<<<108, 116>>, "Lt">>,   \* "lt"
    <<<<109, 107>>, "Mk">>,   \* "mk"
    <<<<109, 103>>, "Mg">>   \* "mg"
>>

\* the arms of forth_get_language_helper, in source order
forth_get_language_helper_arms == <<
    <<<<109, 115>>, "Ms">>,   \* "ms"
    <<<<109, 108>>, "Ml">>,   \* "ml"
    <<<<109, 116>>, "Mt">>,   \* "mt"
    <<<<109, 105>>, "Mi">>,   \* "mi"
    <<<<109, 114>>, "Mr">>,   \* "mr"
    <<<<109, 111>>, "Mo">>,   \* "mo"
    <<<<109, 110>>, "Mn">>,   \* "mn"
    <<<<110, 97>>, "Na">>,   \* "na"
    <<<<110, 101>>, "Ne">>,   \* "ne"
    <<<<110, 111>>, "No">>,   \* "no"
    <<<<111, 99>>, "Oc">>,   \* "oc"
    <<<<111, 114>>, "Or">>,   \* "or"
    <<<<111, 109>>, "Om">>,   \* "om"
    <<<<112, 115>>, "Ps">>,   \* "ps"
    <<<<102, 97>>, "Fa">>,   \* "fa"
    <<<<112, 108>>, "Pl">>,   \* "pl"
    <<<<112, 116>>, "Pt">>,   \* "pt"
    <<<<112, 97>>, "Pa">>,   \* "pa"
    <<<<113, 117>>, "Qu">>,   \* "qu"
    <<<<114, 109>>, "Rm">>,   \* "rm"
    <<<<114, 111>>, "Ro">>,   \* "ro"
    <<<<114, 117>>, "Ru">>,   \* "ru"
    <<<<115, 109>>, "Sm">>,   \* "sm"
    <<<<115, 103>>, "Sg">>   \* "sg"
>>

\* the arms of fifth_get_language_helper, in source order
fifth_get_language_helper_arms == <<
    <<<<115, 97>>, "Sa">>,   \* "sa"
    <<<<115, 114>>, "Sr">>,   \* "sr"
    <<<<115, 104>>, "Sh">>,   \* "sh"
    <<<<115, 116>>, "St">>,   \* "st"
    <<<<116, 110>>, "Tn">>,   \* "tn"
    <<<<115, 110>>, "Sn">>,   \* "sn"
    <<<<115, 100>>, "Sd">>,   \* "sd"
    <<<<115, 105>>, "Si">>,   \* "si"
    <<<<115, 115>>, "Ss">>,   \* "ss"
    <<<<115, 107>>, "Sk">>,   \* "sk"
    <<<<115, 108>>, "Sl">>,   \* "sl"
    <<<<115, 111>>, "So">>,   \* "so"
    <<<<101, 115>>, "Es">>,   \* "es"
    <<<<115, 117>>, "Su">>,   \* "su"
    <<<<115, 119>>, "Sw">>,   \* "sw"
    <<<<115, 118>>, "Sv">>,   \* "sv"
    <<<<116, 108>>, "Tl">>,   \* "tl"
    <<<<116, 103>>, "Tg">>,   \* "tg"
    <<<<116, 97>>, "Ta">>,   \* "ta"
    <<<<116, 116>>, "Tt">>,   \* "tt"
    <<<<116, 101>>, "Te">>,   \* "te"
    <<<<116, 104>>, "Th">>,   \* "th"
    <<<<98, 111>>, "Bo">>,   \* "bo"
    <<<<116, 105>>, "Ti">>   \* "ti"
>>

\* the arms of sixth_get_language_helper, in source order
sixth_get_language_helper_arms == <<
    <<<<116, 111>>, "To">>,   \* "to"
    <<<<116, 115>>, "Ts">>,   \* "ts"
    <<<<116, 114>>, "Tr">>,   \* "tr"
    <<<<116, 107>>, "Tk">>,   \* "tk"
    <<<<116, 119>>, "Tw">>,   \* "tw"
    <<<<117, 107>>, "Uk">>,   \* "uk"
    <<<<117, 114>>, "Ur">>,   \* "ur"
    <<<<117, 122>>, "Uz">>,   \* "uz"
    <<<<118, 105>>, "Vi">>,   \* "vi"
    <<<<118, 111>>, "Vo">>,   \* "vo"
    <<<<99, 121>>, "Cy">>,   \* "cy"
    <<<<119, 111>>, "Wo">>,   \* "wo"
    <<<<120, 104>>, "Xh">>,   \* "xh"
    <<<<106, 105>>, "Ji">>,   \* "ji"
    <<<<121, 111>>, "Yo">>,   \* "yo"
    <<<<122, 117>>, "Zu">>   \* "zu"
>>

\* enum Region: Any, Custom(u32) and the unit variants
RegionAny == [variant |-> "Any", value |-> 0]

RegionCustom(value) == [variant |-> "Custom", value |-> value]

RegionUnit(x) == [variant |-> x, value |-> 0]

RegionVariants == {RegionCodes[i][1] : i \in DOMAIN RegionCodes}

\* the Custom(u32) payloads drawn: 0..MaxCustom, which covers every number of
\* the table, and 2^31 - 1, far beyond it
CustomValues == 0..MaxCustom \cup {2147483647}

Regions ==
    {RegionAny} \cup {RegionUnit(x) : x \in RegionVariants}
    \cup {RegionCustom(n) : n \in CustomValues}

\* a Custom arm whose fall-through repeats the first entry of the table
Region_fmt_custom_nodefault(value) ==
    LET hits == {i \in DOMAIN CustomRegionCodes : CustomRegionCodes[i][1] = value}
    IN IF hits = {} THEN CustomRegionCodes[1][2]
       ELSE CustomRegionCodes[CHOOSE i \in hits : TRUE][2]

\* impl Display for Region, the arm Region::Custom(value): `_ => "**"`
Region_fmt_custom(value) ==
    LET hits == {i \in DOMAIN CustomRegionCodes : CustomRegionCodes[i][1] = value}
    IN IF hits = {} THEN <<42, 42>>
       ELSE CustomRegionCodes[CHOOSE i \in hits : TRUE][2]

\* impl Display for Region
Region_fmt(r) ==
    IF r.variant = "Any" THEN <<42, 42>>
    ELSE IF r.variant = "Custom" THEN Region_fmt_custom(r.value)
    ELSE RegionCodes[CHOOSE i \in DOMAIN RegionCodes : RegionCodes[i][1] = r.variant][2]

ninth_get_region_helper(var_env) ==
    LET i == FirstArm(ninth_get_region_helper_arms, var_env)
    IN IF i # 0 THEN RegionUnit(ninth_get_region_helper_arms[i][2]) ELSE RegionAny

eight_get_region_helper(var_env) ==
    LET i == FirstArm(eight_get_region_helper_arms, var_env)
    IN IF i # 0 THEN RegionUnit(eight_get_region_helper_arms[i][2])
       ELSE ninth_get_region_helper(var_env)

seventh_get_region_helper(var_env) ==
    LET i == FirstArm(seventh_get_region_helper_arms, var_env)
    IN IF i # 0 THEN RegionUnit(seventh_get_region_helper_arms[i][2])
       ELSE eight_get_region_helper(var_env)

sixth_get_region_helper(var_env) ==
    LET i == FirstArm(sixth_get_region_helper_arms, var_env)
    IN IF i # 0 THEN RegionUnit(sixth_get_region_helper_arms[i][2])
       ELSE seventh_get_region_helper(var_env)

fifth_get_region_helper(var_env) ==
    LET i == FirstArm(fifth_get_region_helper_arms, var_env)
    IN IF i # 0 THEN RegionUnit(fifth_get_region_helper_arms[i][2])
       ELSE sixth_get_region_helper(var_env)

forth_get_region_helper(var_env) ==
    LET i == FirstArm(forth_get_region_helper_arms, var_env)
    IN IF i # 0 THEN RegionUnit(forth_get_region_helper_arms[i][2])
       ELSE fifth_get_region_helper(var_env)

third_get_region_helper(var_env) ==
    LET i == FirstArm(third_get_region_helper_arms, var_env)
    IN IF i # 0 THEN RegionUnit(third_get_region_helper_arms[i][2])
       ELSE forth_get_region_helper(var_env)

second_get_region_helper(var_env) ==
    LET i == FirstArm(second_get_region_helper_arms, var_env)
    IN IF i # 0 THEN RegionUnit(second_get_region_helper_arms[i][2])
       ELSE third_get_region_helper(var_env)

\* get_region_helper, on the value get_language_and_country() hands it
get_region_helper(var_env) ==
    LET i == FirstArm(get_region_helper_arms, var_env)
    IN IF i # 0 THEN RegionUnit(get_region_helper_arms[i][2])
       ELSE second_get_region_helper(var_env)

\* get_language_and_country: LC_ALL, else LANG, else LANGUAGE, else ""
get_language_and_country(env) ==
    IF env.LC_ALL # None THEN env.LC_ALL.val
    ELSE IF env.LANG # None THEN env.LANG.val
    ELSE IF env.LANGUAGE # None THEN env.LANGUAGE.val
    ELSE <<>>

\* Region::get
Region_get(env) ==
    LET var_env == get_language_and_country(env)
    IN IF var_env = <<>> THEN RegionAny ELSE get_region_helper(var_env)

\* enum Language: __(Box<String>) and one variant per catalogue entry, each
\* carrying a Region
Language__(code) == [variant |-> "__", code |-> code, region |-> RegionAny]

LanguageOf(x, region) == [variant |-> x, code |-> <<>>, region |-> region]

LanguageVariants == {LanguageCodes[i][1] : i \in DOMAIN LanguageCodes}

\* Language::region
Language_region(l) == IF l.variant = "__" THEN RegionAny ELSE l.region

\* impl Display for Language
Language_fmt(l) ==
    IF l.variant = "__" THEN l.code
    ELSE LET row == LanguageCodes[CHOOSE i \in DOMAIN LanguageCodes : LanguageCodes[i][1] = l.variant]
         IN IF l.region # RegionAny THEN row[2] \o Region_fmt(l.region) ELSE row[3]

sixth_get_language_helper(env) ==
    LET var_env == get_language_and_country(env)
        i == FirstArm(sixth_get_language_helper_arms, var_env)
    IN IF i # 0 THEN LanguageOf(sixth_get_language_helper_arms[i][2], Region_get(env))
       ELSE LanguageOf("En", RegionAny)

fifth_get_language_helper(env) ==
    LET var_env == get_language_and_country(env)
        i == FirstArm(fifth_get_language_helper_arms, var_env)
    IN IF i # 0 THEN LanguageOf(fifth_get_language_helper_arms[i][2], Region_get(env))
       ELSE sixth_get_language_helper(env)

forth_get_language_helper(env) ==
    LET var_env == get_language_and_country(env)
        i == FirstArm(forth_get_language_helper_arms, var_env)
    IN IF i # 0 THEN LanguageOf(forth_get_language_helper_arms[i][2], Region_get(env))
       ELSE fifth_get_language_helper(env)

third_get_language_helper(env) ==
    LET var_env == get_language_and_country(env)
        i == FirstArm(third_get_language_helper_arms, var_env)
    IN IF i # 0 THEN LanguageOf(third_get_language_helper_arms[i][2], Region_get(env))
       ELSE forth_get_language_helper(env)

second_get_language_helper(env) ==
    LET var_env == get_language_and_country(env)
        i == FirstArm(second_get_language_helper_arms, var_env)
    IN IF i # 0 THEN LanguageOf(second_get_language_helper_arms[i][2], Region_get(env))
       ELSE third_get_language_helper(env)

get_language_helper(env) ==
    LET var_env == get_language_and_country(env)
        i == FirstArm(get_language_helper_arms, var_env)
    IN IF i # 0 THEN LanguageOf(get_language_helper_arms[i][2], Region_get(env))
       ELSE second_get_language_helper(env)

\* Language::get
Language_get(env) == get_language_helper(env)

\* enum Width
Widths == {"Bits32", "Bits64"}

\* a width table that files X64 under the 32-bit arm
Arch_width_x64as32(a) ==
    IF a.variant = "Unknown"
    THEN Err("InvalidData", <<84, 114, 105, 101, 100, 32, 103, 101, 116, 116, 105, 110, 103, 32, 119, 105, 100, 116, 104, 32, 111, 102, 32, 117, 110, 107, 110, 111, 119, 110, 32, 97, 114, 99, 104, 32, 40>> \o a.payload \o <<41>>)
    ELSE IF a.variant \in {"ArmV5", "ArmV6", "ArmV7", "I386", "I586", "I686", "Mips",
                           "MipsEl", "PowerPc", "Riscv32", "Sparc", "Wasm32", "X64"}
    THEN Ok("Bits32")
    ELSE Ok("Bits64")

\* Arch::width; the error is io::Error of kind InvalidData, its bytes the
\* message "Tried getting width of unknown arch ({})"
Arch_width(a) ==
    IF a.variant = "Unknown"
    THEN Err("InvalidData", <<84, 114, 105, 101, 100, 32, 103, 101, 116, 116, 105, 110, 103, 32, 119, 105, 100, 116, 104, 32, 111, 102, 32, 117, 110, 107, 110, 111, 119, 110, 32, 97, 114, 99, 104, 32, 40>> \o a.payload \o <<41>>)
    ELSE IF a.variant \in {"ArmV5", "ArmV6", "ArmV7", "I386", "I586", "I686", "Mips",
                           "MipsEl", "PowerPc", "Riscv32", "Sparc", "Wasm32"}
    THEN Ok("Bits32")
    ELSE IF a.variant \in {"Arm64", "Mips64", "Mips64El", "PowerPc64", "PowerPc64Le",
                           "Riscv64", "S390x", "Sparc64", "Wasm64", "X64"}
    THEN Ok("Bits64")
    ELSE Panic

(***************************************************************************)
(* lang() and langs() of lib.rs over the providers' lang()                 *)
(***************************************************************************)
\* fake.rs lang: once("en-US")
fake_lang == <<<<101, 110, 45, 85, 83>>>>

\* os/wasi.rs lang: wasite::langs(), "en_US" when it fails, cut at every ';'
wasi_lang(v) ==
    split(IF v.wasite_langs.st = "ok" THEN v.wasite_langs.val ELSE <<101, 110, 95, 85, 83>>, 59)

\* the provider a lang() call runs against
LangProviderViews ==
    {[target |-> "fake"]} \cup
    {[target |-> "wasi", wasite_langs |-> l] :
        l \in {Ok(s) : s \in BoundedSeq(LangBytes, MaxLangLen) \cup WholeLocales}
               \cup ProviderErrs}

platform_lang(v) == IF v.target = "wasi" THEN wasi_lang(v) ELSE fake_lang

\* lib.rs lang
lang(v) == platform_lang(v)

\* lib.rs langs: every string of lang() wrapped in Ok(Language::__)
langs(v) == [k \in 1..Len(lang(v)) |-> Ok(Language__(lang(v)[k]))]

\* the values LC_ALL, LANG and LANGUAGE are drawn from: the code of every
\* region, the code of every language, and a few whole locales
LocaleValues ==
    {RegionCodes[i][2] : i \in DOMAIN RegionCodes}
    \cup {LanguageCodes[i][3] : i \in DOMAIN LanguageCodes}
    \cup {<<>>, GermanLocale, ColombianLocale, UncataloguedLocale, <<120, 120>>}

\* the process environment get_language_and_country reads
EnvViews ==
    {[LC_ALL |-> a, LANG |-> b, LANGUAGE |-> c] :
        a \in {None} \cup {Some(s) : s \in LocaleValues},
        b \in {None, Some(ColombianLocale)},
        c \in {None, Some(GermanLocale)}}

\* the regions a Language value is rendered with
LanguageRegions ==
    {RegionAny, RegionUnit("De"), RegionUnit("Co"), RegionCustom(276), RegionCustom(0)}

\* the Language values rendered and asked for their region: what langs()
\* builds from the locales drawn, and every catalogue variant
Languages ==
    {Language__(normalize_lang(s)) :
        s \in BoundedSeq(LangBytes, MaxLangLen) \cup WholeLocales}
    \cup {LanguageOf(x, r) : x \in LanguageVariants, r \in LanguageRegions}

\* what gethostname can leave in the first HostNameMax bytes: a name shorter
\* than that followed by NUL, or HostNameMax bytes of a longer name with the
\* NUL left out (POSIX leaves the termination of a truncated name open)
HostWrites ==
    {[k \in 1..(n + 1) |-> IF k <= n THEN 97 ELSE 0] : n \in 0..(HostNameMax - 1)}
    \cup {[k \in 1..HostNameMax |-> 97]}

\* the memory hostname_os hands to strlen: the bytes gethostname wrote, the
\* rest of the 256-byte allocation, which Vec::with_capacity leaves
\* uninitialised, and the bytes that follow the allocation
HostMemories ==
    {[written |-> w, spare |-> u, beyond |-> y] :
        w \in HostWrites,
        u \in UNION {[1..k -> {0, 97}] : k \in 0..(HostNameMax + 1)},
        y \in {<<0>>, <<97, 0>>}}

HostBufferViews ==
    {[target |-> "unix", memory |-> m] :
        m \in {x \in HostMemories : Len(x.written) + Len(x.spare) = HostNameMax + 1}}

\* strlen: the offset of the first NUL byte
strlen(mem) == (CHOOSE k \in 1..Len(mem) : mem[k] = 0 /\ \A j \in 1..(k - 1) : mem[j] # 0) - 1

\* unix.rs hostname_os over the memory it works on: the bytes up to the first
\* NUL, and whether strlen read past the end of the allocation to find it
hostname_os_buffer(v) ==
    LET mem == v.memory.written \o v.memory.spare \o v.memory.beyond
        len == strlen(mem)
    IN [st |-> "ret", val |-> SubSeq(mem, 1, len), overread |-> len >= HostNameMax + 1]

(***************************************************************************)
(* wasm.rs: the browser provider over navigator.userAgent                  *)
(***************************************************************************)
\* "Mozilla/5.0 (X11; Linux x86_64; rv:109.0) Gecko/20100101 Firefox/115.0"
FirefoxLinuxAgent ==
    <<77, 111, 122, 105, 108, 108, 97, 47, 53, 46, 48, 32, 40, 88, 49, 49, 59, 32, 76, 105, 110, 117, 120, 32, 120, 56, 54, 95, 54, 52, 59, 32, 114, 118, 58, 49, 48, 57, 46, 48, 41, 32, 71, 101, 99, 107, 111, 47, 50, 48, 49, 48, 48, 49, 48, 49, 32, 70, 105, 114, 101, 102, 111, 120, 47, 49, 49, 53, 46, 48>>

\* "Mozilla/5.0 (Windows NT 10.0; Win64; x64) AppleWebKit/537.36 Chrome/114.0 Safari/537.36"
ChromeWindowsAgent ==
    <<77, 111, 122, 105, 108, 108, 97, 47, 53, 46, 48, 32, 40, 87, 105, 110, 100, 111, 119, 115, 32, 78, 84, 32, 49, 48, 46, 48, 59, 32, 87, 105, 110, 54, 52, 59, 32, 120, 54, 52, 41, 32, 65, 112, 112, 108, 101, 87, 101, 98, 75, 105, 116, 47, 53, 51, 55, 46, 51, 54, 32, 67, 104, 114, 111, 109, 101, 47, 49, 49, 52, 46, 48, 32, 83, 97, 102, 97, 114, 105, 47, 53, 51, 55, 46, 51, 54>>

\* "Mozilla/5.0 (Macintosh; Intel Mac OS X 10_15_7) Safari/605.1.15"
SafariMacAgent ==
    <<77, 111, 122, 105, 108, 108, 97, 47, 53, 46, 48, 32, 40, 77, 97, 99, 105, 110, 116, 111, 115, 104, 59, 32, 73, 110, 116, 101, 108, 32, 77, 97, 99, 32, 79, 83, 32, 88, 32, 49, 48, 95, 49, 53, 95, 55, 41, 32, 83, 97, 102, 97, 114, 105, 47, 54, 48, 53, 46, 49, 46, 49, 53>>

\* "(Win32.NT)"
DotBeforeNtAgent ==
    <<40, 87, 105, 110, 51, 50, 46, 78, 84, 41>>

\* "(Linux X11;)"
TrailingSemicolonAgent ==
    <<40, 76, 105, 110, 117, 120, 32, 88, 49, 49, 59, 41>>

\* '(', ')', '/', ' ' and 'a'
UaBytes == {40, 41, 47, 32, 97}

\* the user-agent strings drawn
UserAgents ==
    BoundedSeq(UaBytes, MaxUaLen)
    \cup {FirefoxLinuxAgent, ChromeWindowsAgent, SafariMacAgent, DotBeforeNtAgent,
          TrailingSemicolonAgent}

\* str::find(pat): the byte offset of the first match, -1 for None
Find(s, pat) ==
    LET hits == {i \in 0..(Len(s) - Len(pat)) : SubSeq(s, i + 1, i + Len(pat)) = pat}
    IN IF hits = {} THEN -1 ELSE CHOOSE i \in hits : \A j \in hits : i <= j

\* str::rfind(pat): the byte offset of the last match, -1 for None
RFind(s, pat) ==
    LET hits == {i \in 0..(Len(s) - Len(pat)) : SubSeq(s, i + 1, i + Len(pat)) = pat}
    IN IF hits = {} THEN -1 ELSE CHOOSE i \in hits : \A j \in hits : i >= j

\* whether the range begin..end is one &s[begin..end] accepts
SliceOk(s, begin, end) == 0 <= begin /\ begin <= end /\ end <= Len(s)

\* &s[begin..end], for a range that SliceOk accepts
Slice(s, begin, end) == SubSeq(s, begin + 1, end)

\* wasm.rs computer: get(start + 1..end).unwrap()
wasm_computer(ua) ==
    LET end   == RFind(ua, <<47>>)
        start == RFind(ua, <<32>>)
    IN IF end = -1 \/ start = -1 THEN Ret(<<85, 110, 107, 110, 111, 119, 110, 32, 66, 114, 111, 119, 115, 101, 114>>)
       ELSE IF ~SliceOk(ua, start + 1, end) THEN Panic
       ELSE LET string == Slice(ua, start + 1, end)
            IN IF string = <<83, 97, 102, 97, 114, 105>>
               THEN IF Contains(ua, <<67, 104, 114, 111, 109, 101>>) THEN Ret(<<67, 104, 114, 111, 109, 101>>) ELSE Ret(<<83, 97, 102, 97, 114, 105>>)
               ELSE Ret(string)

\* wasm.rs os, the branch taken for a Windows user agent
wasm_os_windows(string) ==
    LET begin == Find(string, <<78, 84>>)
        end   == Find(string, <<46>>)
    IN IF begin = -1 \/ end = -1 THEN Ret(Some(<<87, 105, 110, 100, 111, 119, 115>>))
       ELSE IF ~SliceOk(string, begin + 3, end) THEN Panic
       ELSE Ret(Some(<<87, 105, 110, 100, 111, 119, 115, 32>> \o Slice(string, begin + 3, end)))

\* wasm.rs os, the end of the Linux branch
wasm_os_linux_name(string) ==
    IF Find(string, <<76, 105, 110, 117, 120>>) = 0 THEN Ret(Some(<<85, 110, 107, 110, 111, 119, 110, 32, 76, 105, 110, 117, 120>>))
    ELSE LET end == Find(string, <<59>>)
         IN IF end = -1 THEN Ret(Some(<<85, 110, 107, 110, 111, 119, 110, 32, 76, 105, 110, 117, 120>>)) ELSE Ret(Some(Slice(string, 0, end)))

\* wasm.rs os, the branch taken for a Linux user agent
wasm_os_linux(string) ==
    IF Contains(string, <<88, 49, 49>>) \/ Contains(string, <<87, 97, 121, 108, 97, 110, 100>>)
    THEN LET begin == Find(string, <<59>>)
         IN IF begin = -1 THEN Ret(Some(<<85, 110, 107, 110, 111, 119, 110, 32, 76, 105, 110, 117, 120>>))
            ELSE IF ~SliceOk(string, begin + 2, Len(string)) THEN Panic
            ELSE wasm_os_linux_name(Slice(string, begin + 2, Len(string)))
    ELSE wasm_os_linux_name(string)

\* wasm.rs os, the branch taken for a Mac user agent
wasm_os_mac(string) ==
    LET begin == Find(string, <<77, 97, 99, 32, 79, 83, 32, 88>>)
        tail  == Slice(string, begin, Len(string))
        end   == Find(tail, <<59>>)
    IN IF end # -1 THEN Ret(Some(Slice(string, begin, begin + end)))
       ELSE Ret(Some([k \in 1..Len(tail) |-> IF tail[k] = 95 THEN 46 ELSE tail[k]]))

\* wasm.rs os
wasm_os(ua) ==
    LET begin == Find(ua, <<40>>)
        end   == Find(ua, <<41>>)
    IN IF begin = -1 \/ end = -1 THEN Ret(None)
       ELSE IF ~SliceOk(ua, begin + 1, end) THEN Panic
       ELSE LET string == Slice(ua, begin + 1, end)
            IN IF Contains(string, <<87, 105, 110, 51, 50>>) \/ Contains(string, <<87, 105, 110, 54, 52>>)
               THEN wasm_os_windows(string)
               ELSE IF Contains(string, <<76, 105, 110, 117, 120>>) THEN wasm_os_linux(string)
               ELSE IF Contains(string, <<77, 97, 99, 32, 79, 83, 32, 88>>) THEN wasm_os_mac(string)
               ELSE Ret(Some(string))

\* wasm.rs platform
wasm_platform(ua) ==
    LET begin == Find(ua, <<40>>)
        end   == Find(ua, <<41>>)
    IN IF begin = -1 \/ end = -1
       THEN Ret([variant |-> "Unknown", payload |-> <<85, 110, 107, 110, 111, 119, 110>>])
       ELSE IF ~SliceOk(ua, begin + 1, end) THEN Panic
       ELSE LET string == Slice(ua, begin + 1, end)
            IN IF Contains(string, <<87, 105, 110, 51, 50>>) \/ Contains(string, <<87, 105, 110, 54, 52>>)
               THEN Ret([variant |-> "Windows", payload |-> <<>>])
               ELSE IF Contains(string, <<76, 105, 110, 117, 120>>)
               THEN Ret([variant |-> "Linux", payload |-> <<>>])
               ELSE IF Contains(string, <<77, 97, 99, 32, 79, 83, 32, 88>>)
               THEN Ret([variant |-> "MacOS", payload |-> <<>>])
               ELSE Ret([variant |-> "Unknown", payload |-> string])

(***************************************************************************)
(* Calls                                                                   *)
(***************************************************************************)
Threads == 1..NumThreads

\* a thread that is not inside the library
NotCalling ==
    [pc |-> "idle", query |-> "none", log |-> <<>>, seen |-> 0,
     stable |-> TRUE, result |-> [st |-> "none"]]

\* wasm.rs 8-9: static mut USER_AGENT = MaybeUninit::uninit(); static INIT = Once::new();
\* inits counts the runs of the closure, uninit_read records a read of
\* USER_AGENT before it was written
FreshStatics ==
    [INIT |-> "incomplete", USER_AGENT |-> "uninit", inits |-> 0, uninit_read |-> FALSE]

\* no call is in progress
Idle == [fn |-> "none"]

\* function fn runs to completion against the view v and hands back r
Called(fn, v, r) ==
    /\ call' = [fn |-> fn, view |-> v, ret |-> r]
    /\ UNCHANGED <<hist, thread, statics>>

\* the caller has consumed the value; nothing of the call is kept
Return == call # Idle /\ call' = Idle /\ UNCHANGED <<hist, thread, statics>>

Username == call = Idle /\ \E v \in UserViews : Called("username", v, username(v))

UsernameOs == call = Idle /\ \E v \in UserViews : Called("username_os", v, username_os(v))

Realname == call = Idle /\ \E v \in UserViews : Called("realname", v, realname(v))

RealnameOs == call = Idle /\ \E v \in UserViews : Called("realname_os", v, realname_os(v))

Devicename == call = Idle /\ \E v \in HostViews : Called("devicename", v, devicename(v))

DevicenameOs == call = Idle /\ \E v \in HostViews : Called("devicename_os", v, devicename_os(v))

Hostname == call = Idle /\ \E v \in HostViews : Called("hostname", v, hostname(v))

HostnameOs == call = Idle /\ \E v \in HostViews : Called("hostname_os", v, hostname_os(v))

Distro == call = Idle /\ \E v \in DistroViews : Called("distro", v, distro(v))

DistroOs == call = Idle /\ \E v \in DistroViews : Called("distro_os", v, distro_os(v))

PlatformCall == call = Idle /\ \E v \in DistroViews : Called("platform", v, platform(v))

DesktopEnv ==
    call = Idle /\ \E v \in DesktopEnvViews : Called("desktop_env", v, desktop_env(v))

ArchCall == call = Idle /\ \E v \in ArchViews : Called("arch", v, arch(v))

ApiAccount ==
    call = Idle /\ \E v \in AccountViews : Called("api::account", v, api_account(v))

ApiUsername ==
    call = Idle
    /\ \E v \in {x \in UserViews : x.target = "os"} :
           Called("api::username", v, api_username(v))

ApiRealname ==
    call = Idle
    /\ \E v \in {x \in UserViews : x.target = "os"} :
           Called("api::realname", v, api_realname(v))

ApiDevicename ==
    call = Idle
    /\ \E v \in {x \in HostViews : x.target = "os"} :
           Called("api::devicename", v, api_devicename(v))

Langs == call = Idle /\ \E v \in LangViews : Called("api::langs", v, api_langs(v))

ApiHostname ==
    call = Idle /\ \E v \in {w \in HostViews : w.target = "os"} :
        Called("api::hostname", v, api_hostname(v))

FallibleHostname ==
    call = Idle /\ \E v \in HostViews : Called("fallible::hostname", v, fallible_hostname(v))

PlatformRealname ==
    call = Idle /\ \E v \in UserViews : Called("platform::realname", v, platform_realname(v))

Lang == call = Idle /\ \E v \in LangProviderViews : Called("lang", v, Ret(lang(v)))

LibLangs == call = Idle /\ \E v \in LangProviderViews : Called("langs", v, Ret(langs(v)))

RegionFmt == call = Idle /\ \E r \in Regions : Called("Region::fmt", r, Ret(Region_fmt(r)))

RegionGet == call = Idle /\ \E env \in EnvViews : Called("Region::get", env, Ret(Region_get(env)))

LanguageGet ==
    call = Idle /\ \E env \in EnvViews : Called("Language::get", env, Ret(Language_get(env)))

LanguageRegion ==
    call = Idle /\ \E l \in Languages : Called("Language::region", l, Ret(Language_region(l)))

LanguageFmt ==
    call = Idle /\ \E l \in Languages : Called("Language::fmt", l, Ret(Language_fmt(l)))

ArchWidth == call = Idle /\ \E a \in Archs : Called("Arch::width", a, Arch_width(a))

WasmComputer ==
    call = Idle /\ \E ua \in UserAgents : Called("wasm::computer", [user_agent |-> ua], wasm_computer(ua))

WasmOs == call = Idle /\ \E ua \in UserAgents : Called("wasm::os", [user_agent |-> ua], wasm_os(ua))

WasmPlatform ==
    call = Idle /\ \E ua \in UserAgents : Called("wasm::platform", [user_agent |-> ua], wasm_platform(ua))

HostnameOsBuffer ==
    call = Idle /\ \E v \in HostBufferViews :
        Called("unix::hostname_os", v, hostname_os_buffer(v))

Init ==
    /\ call = Idle
    /\ hist = <<>>
    /\ thread = [t \in Threads |-> NotCalling]
    /\ statics = FreshStatics

Next ==
    \/ Username
    \/ UsernameOs
    \/ Realname
    \/ RealnameOs
    \/ Devicename
    \/ DevicenameOs
    \/ Hostname
    \/ HostnameOs
    \/ Distro
    \/ DistroOs
    \/ PlatformCall
    \/ DesktopEnv
    \/ ArchCall
    \/ ApiAccount
    \/ ApiUsername
    \/ ApiRealname
    \/ ApiDevicename
    \/ Langs
    \/ ApiHostname
    \/ FallibleHostname
    \/ PlatformRealname
    \/ Lang
    \/ LibLangs
    \/ RegionFmt
    \/ RegionGet
    \/ LanguageGet
    \/ LanguageRegion
    \/ LanguageFmt
    \/ ArchWidth
    \/ WasmComputer
    \/ WasmOs
    \/ WasmPlatform
    \/ HostnameOsBuffer
    \/ Return

Spec == Init /\ [][Next]_vars

(***************************************************************************)
(* Threads calling the library while the system changes                    *)
(***************************************************************************)
\* the names the system hands out in this specification
ThreadOsNames == {Ok(<<65>>), Err("NotFound", <<>>)}

\* the hostnames the administrator can set
ThreadHostnames == {Ok(<<65>>), Ok(<<66>>)}

\* the user database and machine name as one of: everything known, only the
\* login name known, nothing known
ThreadAccounts ==
    {[username |-> Ok(<<65>>), realname |-> Ok(<<65>>), devicename |-> Ok(<<65>>)],
     [username |-> Ok(<<65>>), realname |-> Err("NotFound", <<>>),
      devicename |-> Err("NotFound", <<>>)],
     [username |-> Err("NotFound", <<>>), realname |-> Err("NotFound", <<>>),
      devicename |-> Err("NotFound", <<>>)]}

\* the system a program starts on: a Target (os.rs) or the browser (wasm.rs)
OsStates ==
    {[target |-> "os", username |-> a.username, realname |-> a.realname,
      devicename |-> a.devicename, hostname |-> h, user_agent |-> <<>>] :
        a \in ThreadAccounts, h \in ThreadOsNames}
    \cup
    {[target |-> "wasm", username |-> Ok(<<>>), realname |-> Ok(<<>>), devicename |-> Ok(<<>>),
      hostname |-> Ok(<<>>), user_agent |-> ua] :
        ua \in {FirefoxLinuxAgent, ChromeWindowsAgent, SafariMacAgent}}
    \cup
    {[target |-> "unix", pw_name |-> <<97>>, pw_gecos |-> g, gethostname |-> <<65>>,
      machine_info |-> [readable |-> FALSE]] :
        g \in {<<>>, <<65>>}}

\* the hostname of the system v, as its provider reads it
OsHostname(v) == IF v.target = "unix" THEN Ok(v.gethostname) ELSE v.hostname

\* the system v with its hostname changed to h
WithHostname(v, h) ==
    IF v.target = "unix" THEN [v EXCEPT !.gethostname = h.val] ELSE [v EXCEPT !.hostname = h]

\* the functions a thread calls on a system
Queries(os) ==
    IF os.target = "wasm" THEN {"wasm::platform", "wasm::os", "wasm::computer"}
    ELSE {"realname", "devicename", "hostname"}

\* a system call reads the state of the system at the moment it is made
OsAtFirst(h) == h[1]

CurrentOs(h) == h[Len(h)]

\* lib.rs 4960-5005: the sources of a convenience function, in the order written
Chain(q) ==
    CASE q = "realname"   -> <<"fallible::realname", "fallible::username", "DEFAULT_USERNAME">>
      [] q = "devicename" -> <<"fallible::devicename", "fallible::hostname", "DEFAULT_HOSTNAME">>
      [] q = "hostname"   -> <<"fallible::hostname", "DEFAULT_HOSTNAME.to_lowercase">>

\* what a source answers on the system v
Source(src, v) ==
    CASE src = "fallible::realname"   -> fallible_realname(v)
      [] src = "fallible::username"   -> fallible_username(v)
      [] src = "fallible::devicename" -> fallible_devicename(v)
      [] src = "fallible::hostname"   -> fallible_hostname(v)
      [] src = "DEFAULT_USERNAME"     -> Ok(DEFAULT_USERNAME)
      [] src = "DEFAULT_HOSTNAME"     -> Ok(DEFAULT_HOSTNAME)
      [] src = "DEFAULT_HOSTNAME.to_lowercase" -> Ok(to_lowercase(DEFAULT_HOSTNAME))

\* a chain that goes on to its next source whatever the last one answered
ChainEnds_exhausted(q, log, out) == Len(log) + 1 = Len(Chain(q))

\* Result::or_else / unwrap_or_else run their closure only on Err: the chain
\* ends with the first source that succeeds
ChainEnds(q, log, out) == out.st = "ok"

\* a call_once that does not wait for a running initialisation
call_once_nowait(init) ==
    CASE init = "incomplete" -> "init"
      [] init = "running"    -> "read"
      [] init = "complete"   -> "read"

\* std::sync::Once::call_once as wasm.rs 14 uses it: the first caller runs the
\* closure, a caller that finds it running blocks, later callers pass
call_once(init) ==
    CASE init = "incomplete" -> "init"
      [] init = "running"    -> "wait"
      [] init = "complete"   -> "read"

\* the browser provider's answer for a user agent
wasm_answer(q, ua) ==
    CASE q = "wasm::platform" -> wasm_platform(ua)
      [] q = "wasm::os"       -> wasm_os(ua)
      [] q = "wasm::computer" -> wasm_computer(ua)

\* what a read through an uninitialised USER_AGENT can hand back
UninitOutcomes == {Panic, Ret(<<>>)}

\* a thread on its own calling q on the system v
Alone(q, v) ==
    CASE q = "realname"   -> realname(v)
      [] q = "devicename" -> devicename(v)
      [] q = "hostname"   -> hostname(v)
      [] OTHER            -> wasm_answer(q, v.user_agent)

InCall(t) == thread[t].pc \notin {"idle", "done"}

\* thread t enters a library function while the others are where they are
Start(t) ==
    /\ ~InCall(t)
    /\ \E q \in Queries(CurrentOs(hist)) :
         thread' = [thread EXCEPT ![t] =
             [pc |-> IF CurrentOs(hist).target = "wasm" THEN "once" ELSE "run",
              query |-> q, log |-> <<>>, seen |-> Len(hist), stable |-> TRUE,
              result |-> [st |-> "none"]]]
    /\ UNCHANGED <<call, hist, statics>>

\* lib.rs 4960-5005: thread t asks the next source of its chain
Consult(t) ==
    /\ thread[t].pc = "run"
    /\ LET q   == thread[t].query
           src == Chain(q)[Len(thread[t].log) + 1]
           out == Source(src, CurrentOs(hist))
       IN thread' = [thread EXCEPT
              ![t].log = Append(@, [src |-> src, ok |-> out.st = "ok"]),
              ![t].pc = IF ChainEnds(q, thread[t].log, out) THEN "done" ELSE "run",
              ![t].result = IF ChainEnds(q, thread[t].log, out)
                            THEN IF out.st = "ok" THEN Ret(out.val) ELSE out
                            ELSE @]
    /\ UNCHANGED <<call, hist, statics>>

\* wasm.rs 14: thread t reaches INIT.call_once
CallOnce(t) ==
    /\ thread[t].pc = "once"
    /\ call_once(statics.INIT) # "wait"
    /\ thread' = [thread EXCEPT ![t].pc = call_once(statics.INIT)]
    /\ statics' = IF statics.INIT = "incomplete"
                  THEN [statics EXCEPT !.INIT = "running"] ELSE statics
    /\ UNCHANGED <<call, hist>>

\* wasm.rs 15-17: the closure stores the handle; call_once then completes
InitUserAgent(t) ==
    /\ thread[t].pc = "init"
    /\ statics' = [statics EXCEPT !.USER_AGENT = "handle", !.INIT = "complete",
                                  !.inits = @ + 1]
    /\ thread' = [thread EXCEPT ![t].pc = "read"]
    /\ UNCHANGED <<call, hist>>

\* wasm.rs 19-22, 36-181: thread t reads USER_AGENT, calls the handle and
\* parses the user agent
ReadUserAgent(t) ==
    /\ thread[t].pc = "read"
    /\ IF statics.USER_AGENT = "handle"
       THEN /\ thread' = [thread EXCEPT
                   ![t].pc = "done",
                   ![t].result = wasm_answer(thread[t].query, CurrentOs(hist).user_agent)]
            /\ UNCHANGED statics
       ELSE /\ \E r \in UninitOutcomes :
                   thread' = [thread EXCEPT ![t].pc = "done", ![t].result = r]
            /\ statics' = [statics EXCEPT !.uninit_read = TRUE]
    /\ UNCHANGED <<call, hist>>

\* the administrator changes the hostname
ChangeHostname ==
    /\ Len(hist) <= MaxChanges
    /\ CurrentOs(hist).target # "wasm"
    /\ \E h \in ThreadHostnames \ {OsHostname(CurrentOs(hist))} :
           /\ CurrentOs(hist).target = "unix" => h.st = "ok"
           /\ hist' = Append(hist, WithHostname(CurrentOs(hist), h))
    /\ thread' = [t \in Threads |->
                     IF InCall(t) THEN [thread[t] EXCEPT !.stable = FALSE] ELSE thread[t]]
    /\ UNCHANGED <<call, statics>>

ThreadsInit ==
    /\ call = Idle
    /\ \E os \in OsStates : hist = <<os>>
    /\ thread = [t \in Threads |-> NotCalling]
    /\ statics = FreshStatics

ThreadsNext ==
    \/ \E t \in Threads : Start(t)
    \/ \E t \in Threads : Consult(t)
    \/ \E t \in Threads : CallOnce(t)
    \/ \E t \in Threads : InitUserAgent(t)
    \/ \E t \in Threads : ReadUserAgent(t)
    \/ ChangeHostname

ThreadsSpec == ThreadsInit /\ [][ThreadsNext]_vars


(***************************************************************************)
(* Properties                                                              *)
(***************************************************************************)
\* the OS has no real name for the user: the Target reports success with an
\* empty value, or the GECOS field of the passwd record is empty
RealNameEmpty(v) ==
    IF v.target = "unix" THEN v.pw_gecos = <<>> ELSE v.realname = Ok(<<>>)

\* the OS has no device name: the Target's lookup fails or reports an empty
\* value, or /etc/machine-info gives no (or an empty) PRETTY_HOSTNAME
DeviceNameAbsent(v) ==
    IF v.target = "unix"
    THEN \/ ~v.machine_info.readable
         \/ PrettyHostnameFrom(v.machine_info.lines, 1) \in {None, Ret(<<>>)}
    ELSE \/ fallible_devicename(v).st = "err"
         \/ fallible_devicename(v) = Ok(<<>>)

\* C1: when the real-name lookup succeeds with an unset/empty value and the
\* username lookup yields u, realname() returns u (what username() returns).
C1_RealnameEmptyGivesUsername ==
    (/\ call.fn = "realname"
     /\ RealNameEmpty(call.view)
     /\ fallible_username(call.view).st = "ok")
    => call.ret = username(call.view)

\* C2: whenever the device-name lookup fails or reports an empty value,
\* devicename() returns exactly what hostname() returns on the same system.
C2_DevicenameAbsentGivesHostname ==
    (call.fn = "devicename" /\ DeviceNameAbsent(call.view))
    => call.ret = hostname(call.view)

ConvenienceFns ==
    {"username", "username_os", "realname", "realname_os", "devicename",
     "devicename_os", "hostname", "hostname_os", "distro", "distro_os",
     "desktop_env", "platform", "arch"}

\* C3: every convenience-layer function returns a value for every combination
\* of provider outcomes; none panics or hands an error to its caller.
C3_ConvenienceAlwaysReturns ==
    call.fn \in ConvenienceFns => call.ret.st = "ret"

HasUppercase(s) ==
    LET cs == chars(s) IN \E k \in 1..Len(cs) : IsUppercaseChar(cs[k])

\* C4 as stated: the string hostname() returns contains no uppercase
\* character, also for names with non-ASCII letters.
C4_HostnameNoUppercase ==
    call.fn = "hostname" => call.ret.st = "ret" /\ ~HasUppercase(call.ret.val)

\* C4: the string hostname() returns contains no ASCII uppercase letter
\* ('A'..'Z'), for every hostname of the provider and for the default.
C4_HostnameNoAsciiUppercase ==
    call.fn = "hostname" =>
        /\ call.ret.st = "ret"
        /\ \A k \in 1..Len(call.ret.val) : call.ret.val[k] \notin 65..90

\* hostname() was given a name with an ASCII capital and handed it back in
\* lower case
C4_Witness ==
    /\ call.fn = "hostname"
    /\ call.view.target = "os"
    /\ call.view.hostname = Ok(<<65, 97>>)
    /\ call.ret = Ret(<<97, 97>>)

\* the provider's distro lookup fails: the Target reports an error, or
\* /etc/os-release cannot be read or holds no usable PRETTY_NAME / NAME line
DistroLookupFails(v) ==
    IF v.target = "unix"
    THEN ~v.os_release.readable \/ unix_distro(v) = None
    ELSE v.distro.st = "err"

\* C5: when the provider's distro lookup fails, distro() returns "Unknown "
\* followed by the rendered platform(), and does not fail.
C5_DistroFallback ==
    (call.fn = "distro" /\ DistroLookupFails(call.view))
    => call.ret = Ret(<<85, 110, 107, 110, 111, 119, 110, 32>> \o PlatformDisplay(platform(call.view).val))

\* the view v with the real-name field absent
WithoutRealname(v) ==
    IF v.target = "unix"
    THEN [v EXCEPT !.pw_gecos = <<>>]
    ELSE [v EXCEPT !.realname = Err("NotFound", <<>>)]

\* the native real name is non-empty and not valid Unicode
RealNameInvalid(v) ==
    IF v.target = "unix"
    THEN ~ValidUtf8(v.pw_gecos)
    ELSE v.realname.st = "ok" /\ ~ValidUtf8(v.realname.val)

\* C6: a non-empty native string that is not valid Unicode is treated as an
\* absent field: the call returns what the next source of the chain gives.
C6_InvalidTreatedAsAbsent ==
    (call.fn = "realname" /\ RealNameInvalid(call.view))
    => call.ret = realname(WithoutRealname(call.view))

ApiTextFns == {"api::account", "api::username", "api::realname", "api::devicename"}

\* what the native (OsString) function of the same field returns
NativeOf(fn, v) ==
    CASE fn = "api::account"    -> api_account_os(v)
      [] fn = "api::username"   -> api_username_os(v)
      [] fn = "api::realname"   -> api_realname_os(v)
      [] fn = "api::devicename" -> api_devicename_os(v)

\* C7: a fallible text function returns Ok(text) exactly when the native
\* function returns valid UTF-8, with the same content; InvalidData with the
\* original bytes when they are not valid; the provider's error unchanged.
C7_TextFollowsNative ==
    call.fn \in ApiTextFns =>
        LET native == NativeOf(call.fn, call.view) IN
        /\ (call.ret.st = "ok") <=> (native.st = "ok" /\ ValidUtf8(native.val))
        /\ call.ret.st = "ok" => call.ret.val = native.val
        /\ (native.st = "ok" /\ ~ValidUtf8(native.val))
               => call.ret = [st |-> "err", kind |-> "InvalidData", bytes |-> native.val]
        /\ native.st = "err" => call.ret = native

\* a text function met bytes that are not UTF-8 and reported them
C7_Witness ==
    /\ call.fn = "api::realname"
    /\ call.view.realname = Ok(<<97, 195>>)
    /\ call.ret = [st |-> "err", kind |-> "InvalidData", bytes |-> <<97, 195>>]

\* C8: realname() is never the empty string: with a username to fall back on,
\* a user without a real name gets a non-empty result.
C8_RealnameNeverEmpty ==
    (/\ call.fn = "realname"
     /\ fallible_username(call.view).st = "ok"
     /\ fallible_username(call.view).val # <<>>)
    => call.ret.st = "ret" /\ call.ret.val # <<>>

\* every source of the fallback chain of fn fails on the view v
ChainExhausted(fn, v) ==
    CASE fn = "username"   -> fallible_username(v).st = "err"
      [] fn = "realname"   -> fallible_realname(v).st = "err"
                              /\ fallible_username(v).st = "err"
      [] fn = "devicename" -> fallible_devicename(v).st = "err"
                              /\ fallible_hostname(v).st = "err"
      [] fn = "hostname"   -> fallible_hostname(v).st = "err"
      [] OTHER             -> FALSE

\* C9 as stated: with every source failing, the result is one of "Unknown",
\* "localhost", "anonymous".
C9_PlaceholderAsDocumented ==
    ChainExhausted(call.fn, IF call.fn = "none" THEN <<>> ELSE call.view)
    => call.ret.st = "ret"
       /\ call.ret.val \in {<<85, 110, 107, 110, 111, 119, 110>>, <<108, 111, 99, 97, 108, 104, 111, 115, 116>>,
                            <<97, 110, 111, 110, 121, 109, 111, 117, 115>>}

\* C9: with every source failing, username() returns "unknown", realname()
\* "Unknown", devicename() "LocalHost" and hostname() "localhost".
C9_Placeholders ==
    ChainExhausted(call.fn, IF call.fn = "none" THEN <<>> ELSE call.view)
    => call.ret =
        Ret(CASE call.fn = "username"   -> <<117, 110, 107, 110, 111, 119, 110>>
              [] call.fn = "realname"   -> <<85, 110, 107, 110, 111, 119, 110>>
              [] call.fn = "devicename" -> <<76, 111, 99, 97, 108, 72, 111, 115, 116>>
              [] call.fn = "hostname"   -> <<108, 111, 99, 97, 108, 104, 111, 115, 116>>)

\* username() ran with the provider unreachable and gave the lower-case default
C9_Witness ==
    /\ call.fn = "username"
    /\ call.view.target = "os"
    /\ call.view.username.st = "err"
    /\ call.ret = Ret(<<117, 110, 107, 110, 111, 119, 110>>)

\* positions of the byte sep in s, in increasing order
Positions(s, sep) == SelectSeq([k \in 1..Len(s) |-> k], LAMBDA k : s[k] = sep)

\* the ';'-separated tokens of raw, in input order
TokensOf(raw) ==
    LET cuts == <<0>> \o Positions(raw, 59) \o <<Len(raw) + 1>> IN
    [k \in 1..(Len(cuts) - 1) |-> SubSeq(raw, cuts[k] + 1, cuts[k + 1] - 1)]

\* a token cut at its first '.', every '_' and '-' replaced by '/'
NormalFormOf(token) ==
    LET dots == Positions(token, 46)
        cut  == IF dots = <<>> THEN token ELSE SubSeq(token, 1, dots[1] - 1)
    IN [k \in 1..Len(cut) |-> IF cut[k] \in {95, 45} THEN 47 ELSE cut[k]]

\* C10: langs() yields, in input order, exactly one entry per ';'-separated
\* token whose normal form is not "C", and that entry is the normal form;
\* "en_US.UTF-8;fr_FR.UTF-8;C" yields en/US then fr/FR.
C10_LangsPerToken ==
    (call.fn = "api::langs" /\ call.view.langs.st = "ok") =>
        LET raw   == call.view.langs.val
            forms == [k \in 1..Len(TokensOf(raw)) |-> NormalFormOf(TokensOf(raw)[k])]
        IN /\ call.ret = Ok(SelectSeq(forms, LAMBDA f : f # <<67>>))
           /\ raw = ExampleLocale
                  => call.ret.val = <<<<101, 110, 47, 85, 83>>, <<102, 114, 47, 70, 82>>>>

\* langs() ran on the example and on a string whose "C" token carries a suffix
C10_Witness ==
    /\ call.fn = "api::langs"
    /\ \/ call.view.langs = Ok(ExampleLocale) /\ Len(call.ret.val) = 2
       \/ call.view.langs = Ok(<<67, 46, 101, 59>>) /\ call.ret = Ok(<<<<>>>>)

\* C11: langs() over the empty locale string produces no entries at all.
C11_EmptyLocaleNoEntries ==
    (call.fn = "api::langs" /\ call.view.langs = Ok(<<>>)) => call.ret = Ok(<<>>)

\* C12: no entry of langs() or lang() is the POSIX "C" locale, whatever the
\* raw locale string: a token "C", also "C.UTF-8", contributes no entry.
C12_NoPosixCEntry ==
    /\ (call.fn = "api::langs" /\ call.ret.st = "ok")
           => \A k \in 1..Len(call.ret.val) : call.ret.val[k] # <<67>>
    /\ call.fn = "lang"
           => \A k \in 1..Len(call.ret.val) : call.ret.val[k] # <<67>>
    /\ call.fn = "langs"
           => \A k \in 1..Len(call.ret.val) : Language_fmt(call.ret.val[k].val) # <<67>>

\* raw has the form ll_RR.ENC: two lower-case letters, '_', two upper-case
\* letters, '.', and an encoding name without ';' or '.'
IsLlRrEnc(raw) ==
    /\ Len(raw) >= 7
    /\ raw[1] \in 97..122 /\ raw[2] \in 97..122
    /\ raw[3] = 95
    /\ raw[4] \in 65..90 /\ raw[5] \in 65..90
    /\ raw[6] = 46
    /\ \A k \in 7..Len(raw) : raw[k] \notin {59, 46}

\* C13: for a locale of the form ll_RR.ENC, langs() yields exactly one entry,
\* displayed as ll_RR or ll/RR, whose region() is the Region variant of RR.
C13_LocaleEntryHasRegion ==
    (call.fn = "api::langs" /\ call.view.langs.st = "ok" /\ IsLlRrEnc(call.view.langs.val)) =>
        LET raw == call.view.langs.val
            ll  == SubSeq(raw, 1, 2)
            rr  == SubSeq(raw, 4, 5)
        IN /\ call.ret.st = "ok"
           /\ Len(call.ret.val) = 1
           /\ Language_fmt(Language__(call.ret.val[1])) \in {ll \o <<95>> \o rr, ll \o <<47>> \o rr}
           /\ \A x \in RegionVariants :
                  Region_fmt(RegionUnit(x)) = rr
                      => Language_region(Language__(call.ret.val[1])) = RegionUnit(x)

\* the two-letter codes of the language catalogue
CatalogueCodes == {LanguageCodes[i][3] : i \in DOMAIN LanguageCodes}

\* s starts with a two-letter lower-case language code, alone or followed by
\* '_', that the catalogue does not hold
HasUncataloguedCode(s) ==
    /\ Len(s) >= 2
    /\ s[1] \in 97..122 /\ s[2] \in 97..122
    /\ Len(s) = 2 \/ s[3] = 95
    /\ SubSeq(s, 1, 2) \notin CatalogueCodes

\* C14: a locale whose two-letter language code is not in the catalogue gives
\* no error and no other language: the Language it yields displays the code.
C14_UncataloguedKept ==
    /\ (call.fn = "api::langs" /\ call.view.langs.st = "ok"
            /\ Len(call.view.langs.val) = 2 /\ HasUncataloguedCode(call.view.langs.val))
           => call.ret = Ok(<<call.view.langs.val>>)
    /\ (call.fn = "Language::get" /\ HasUncataloguedCode(get_language_and_country(call.view)))
           => /\ call.ret.st = "ret"
              /\ Len(Language_fmt(call.ret.val)) >= 2
              /\ SubSeq(Language_fmt(call.ret.val), 1, 2)
                     = SubSeq(get_language_and_country(call.view), 1, 2)

\* C15 as stated: the fallible layer's hostname() returns the provider's
\* hostname with its letter case unchanged.
C15_FallibleHostnameKeepsCase ==
    (call.fn = "fallible::hostname" /\ platform_hostname(call.view).st = "ok")
        => call.ret = platform_hostname(call.view)

\* C15: the fallible layer's hostname() returns the provider's hostname with
\* the letters 'A'..'Z' replaced by 'a'..'z' and every other byte unchanged;
\* api.rs hostname() returns the provider's hostname unchanged.
C15_FallibleHostnameAsciiLower ==
    /\ (call.fn = "fallible::hostname" /\ platform_hostname(call.view).st = "ok")
           => LET h == platform_hostname(call.view).val IN
              /\ call.ret.st = "ok"
              /\ Len(call.ret.val) = Len(h)
              /\ \A k \in 1..Len(h) :
                     call.ret.val[k] = IF h[k] \in 65..90 THEN h[k] + 32 ELSE h[k]
    /\ (call.fn = "fallible::hostname" /\ platform_hostname(call.view).st # "ok")
           => call.ret = platform_hostname(call.view)
    /\ call.fn = "api::hostname" => call.ret = call.view.hostname

\* fallible::hostname() was handed "Aa" by the provider and gave back "aa"
C15_Witness ==
    /\ call.fn = "fallible::hostname"
    /\ call.view.target = "os"
    /\ call.view.hostname = Ok(<<65, 97>>)
    /\ call.ret = Ok(<<97, 97>>)

\* s without its leading and trailing double quotes
Unquoted(s) ==
    LET keep == {k \in 1..Len(s) : s[k] # 34} IN
    IF keep = {} THEN <<>>
    ELSE SubSeq(s, CHOOSE k \in keep : \A j \in keep : k <= j,
                   CHOOSE k \in keep : \A j \in keep : k >= j)

\* the text after the first '=' of a line: its pieces joined by '=' again
RECURSIVE JoinFrom(_, _)
JoinFrom(rest, i) ==
    IF i > Len(rest) THEN <<>>
    ELSE IF i = Len(rest) THEN rest[i]
    ELSE rest[i] \o <<61>> \o JoinFrom(rest, i + 1)

LineValue(line) == JoinFrom(line.rest, 1)

\* the lines of the form key=value, by index
KeyLines(lines, key) ==
    {i \in 1..Len(lines) : lines[i].key = key /\ lines[i].rest # <<>>}

\* C16: over os-release content the distro lookup returns the value of a
\* PRETTY_NAME line whenever one is present, wherever it stands relative to
\* NAME, otherwise the value of a NAME line, without the surrounding quotes.
C16_PrettyNameThenName ==
    (call.fn = "distro" /\ call.view.target = "unix" /\ call.view.os_release.readable) =>
        LET lines  == call.view.os_release.lines
            pretty == KeyLines(lines, "PRETTY_NAME")
            name   == KeyLines(lines, "NAME")
        IN /\ pretty # {}
               => call.ret \in {Ret(Unquoted(LineValue(lines[i]))) : i \in pretty}
           /\ (pretty = {} /\ name # {})
               => call.ret \in {Ret(Unquoted(LineValue(lines[i]))) : i \in name}

\* C17: the provider's realname() for a user whose GECOS field is unset or
\* empty returns success with an empty value, never an error.
C17_EmptyRealnameIsEmptySuccess ==
    (call.fn = "platform::realname" /\ call.view.target = "unix" /\ call.view.pw_gecos = <<>>)
        => call.ret = Ok(<<>>)

\* C18: Arch::width() gives 32-bit or 64-bit for every known variant, 64-bit
\* for X64, and fails exactly for Arch::Unknown(_), whatever the payload.
C18_ArchWidth ==
    call.fn = "Arch::width" =>
        /\ call.view.variant # "Unknown" => call.ret \in {Ok(w) : w \in Widths}
        /\ call.view.variant = "X64" => call.ret = Ok("Bits64")
        /\ call.view.variant = "Unknown"
               => call.ret.st = "err" /\ call.ret.kind = "InvalidData"

\* width() was asked of Arch::Unknown("WASI") and failed
C18_Witness ==
    /\ call.fn = "Arch::width"
    /\ call.view = [variant |-> "Unknown", payload |-> <<87, 65, 83, 73>>]
    /\ call.ret.st = "err"

\* C19: for every Region variant with a two-letter code, matching the code
\* Display renders with the get_region_helper chain gives back the variant.
C19_RegionRoundTrip ==
    call.fn = "Region::get" =>
        \A x \in RegionVariants :
            get_language_and_country(call.view) = Region_fmt(RegionUnit(x))
                => call.ret = Ret(RegionUnit(x))

\* the numbers of the numeric country table
CustomNumbers == {CustomRegionCodes[i][1] : i \in DOMAIN CustomRegionCodes}

\* C20: rendering a Region never fails, and Region::Custom(n) for n outside
\* the numeric country table renders as "**".
C20_RegionFmtTotal ==
    call.fn = "Region::fmt" =>
        /\ call.ret.st = "ret"
        /\ Len(call.ret.val) = 2
        /\ (call.view.variant = "Custom" /\ call.view.value \notin CustomNumbers)
               => call.ret = Ret(<<42, 42>>)

\* Region::Custom(1), a number the table does not hold, was rendered as "**"
C20_Witness ==
    /\ call.fn = "Region::fmt"
    /\ call.view = RegionCustom(1)
    /\ call.ret = Ret(<<42, 42>>)

\* the arms of the whole get_language_helper chain
LanguageArms ==
    get_language_helper_arms \o second_get_language_helper_arms
    \o third_get_language_helper_arms \o forth_get_language_helper_arms
    \o fifth_get_language_helper_arms \o sixth_get_language_helper_arms

\* the two-letter lower-case code the catalogue lists for the variant x
CatalogueCodeOf(x) ==
    LanguageArms[CHOOSE i \in DOMAIN LanguageArms : LanguageArms[i][2] = x][1]

\* C21: a catalogued Language variant with region r displays as its own
\* lower-case code alone when r is Region::Any, and as that code, '_' and
\* the code of r otherwise.
C21_LanguageDisplay ==
    (call.fn = "Language::fmt" /\ call.view.variant # "__") =>
        LET code == CatalogueCodeOf(call.view.variant) IN
        call.ret = Ret(IF call.view.region = RegionAny THEN code
                       ELSE code \o <<95>> \o Region_fmt(call.view.region))

\* s with the letters 'a'..'z' replaced by 'A'..'Z'
AsciiUpper(s) == [k \in 1..Len(s) |-> IF s[k] \in 97..122 THEN s[k] - 32 ELSE s[k]]

\* s holds, in any letter case, one of the known desktop identifiers
HasDesktopIdentifier(s) ==
    \E i \in DOMAIN desktop_env_arms : Contains(AsciiUpper(s), desktop_env_arms[i][1])

C28_BrowserParsersNeverPanic ==
    call.fn \in {"wasm::computer", "wasm::os", "wasm::platform"} => call.ret.st = "ret"

\* C25: the provider's hostname query never returns more than the buffer's
\* 255 bytes and never reads beyond the buffer, also when the OS fills the
\* requested length and writes no NUL.
C25_HostnameWithinBuffer ==
    call.fn = "unix::hostname_os" =>
        /\ Len(call.ret.val) <= HostNameMax
        /\ ~call.ret.overread

\* the characters '.', '-' and '_'
Separators == {<<46>>, <<45>>, <<95>>}

\* n with every separator replaced by a space, the first character and each
\* character after a separator upper-cased, the rest unchanged
Fancied(n) ==
    LET cs == chars(n) IN
    Concat([k \in 1..Len(cs) |->
               IF cs[k] \in Separators THEN <<32>>
               ELSE IF k = 1 \/ cs[k - 1] \in Separators THEN char_to_uppercase(cs[k])
               ELSE cs[k]])

\* /etc/machine-info gives no PRETTY_HOSTNAME line
NoPrettyHostname(v) ==
    \/ ~v.machine_info.readable
    \/ \A i \in 1..Len(v.machine_info.lines) : v.machine_info.lines[i].key # "PRETTY_HOSTNAME"

\* C27: when the GECOS field (the device name) is empty and the unix provider
\* falls back to the login name (the hostname) n, the result is n with each
\* '.', '-', '_' replaced by a space and the first character and every
\* character after a separator upper-cased; rewriting the result again
\* changes nothing.
C27_FancyFallback ==
    /\ (call.fn = "realname" /\ call.view.target = "unix" /\ call.view.pw_gecos = <<>>)
           => /\ call.ret = Ret(Fancied(unix_username(call.view)))
              /\ Fancied(call.ret.val) = call.ret.val
    /\ (call.fn = "devicename" /\ call.view.target = "unix" /\ NoPrettyHostname(call.view))
           => /\ call.ret = Ret(Fancied(unix_hostname(call.view)))
              /\ Fancied(call.ret.val) = call.ret.val

\* realname() ran for a user without GECOS text whose login name is "-a" and
\* answered " A"
C27_Witness ==
    /\ call.fn = "realname"
    /\ call.view.target = "unix"
    /\ call.view.pw_gecos = <<>>
    /\ call.view.pw_name = <<45, 97>>
    /\ call.ret = Ret(<<32, 65>>)

\* the index of the first PRETTY_HOSTNAME line of the form key=value, 0 when
\* the first PRETTY_HOSTNAME line has no '=' or there is none
FirstPrettyHostname(lines) ==
    LET hits == {i \in 1..Len(lines) : lines[i].key = "PRETTY_HOSTNAME"}
        i    == IF hits = {} THEN 0 ELSE CHOOSE k \in hits : \A j \in hits : k <= j
    IN IF i # 0 /\ lines[i].rest # <<>> THEN i ELSE 0

\* C29: a non-empty real name (device name) that is valid text is returned by
\* realname() (devicename()) exactly as the OS supplies it.
C29_SuppliedNameUnchanged ==
    /\ (call.fn = "realname" /\ call.view.target = "unix"
            /\ call.view.pw_gecos # <<>> /\ ValidUtf8(call.view.pw_gecos))
           => call.ret = Ret(call.view.pw_gecos)
    /\ (call.fn = "realname" /\ call.view.target = "os"
            /\ call.view.realname.st = "ok" /\ call.view.realname.val # <<>>
            /\ ValidUtf8(call.view.realname.val))
           => call.ret = Ret(call.view.realname.val)
    /\ (call.fn = "devicename" /\ call.view.target = "os"
            /\ call.view.devicename.st = "ok" /\ call.view.devicename.val # <<>>
            /\ ValidUtf8(call.view.devicename.val))
           => call.ret = Ret(call.view.devicename.val)
    /\ (call.fn = "devicename" /\ call.view.target = "unix" /\ call.view.machine_info.readable
            /\ FirstPrettyHostname(call.view.machine_info.lines) # 0)
           => LET lines == call.view.machine_info.lines
                  name  == Unquoted(LineValue(lines[FirstPrettyHostname(lines)]))
              IN name # <<>> => call.ret = Ret(name)

\* every NAME and PRETTY_NAME line of the file has the form key=value
NameLinesHaveValues(lines) ==
    \A i \in 1..Len(lines) : lines[i].key \in {"NAME", "PRETTY_NAME"} => lines[i].rest # <<>>

\* C30: the value extracted for PRETTY_NAME, NAME or PRETTY_HOSTNAME is the
\* whole text after the first '=' of the line, without the surrounding double
\* quotes, also when it holds further '='; a matching line without '=' does
\* not make the lookup panic.
C30_WholeValueNoPanic ==
    /\ (call.fn = "devicename" /\ call.view.target = "unix" /\ call.view.machine_info.readable)
           => /\ call.ret.st # "panic"
              /\ FirstPrettyHostname(call.view.machine_info.lines) # 0
                     => LET lines == call.view.machine_info.lines
                        IN call.ret = Ret(Unquoted(LineValue(lines[FirstPrettyHostname(lines)])))
    /\ (call.fn = "distro" /\ call.view.target = "unix" /\ call.view.os_release.readable)
           => /\ call.ret.st # "panic"
              /\ NameLinesHaveValues(call.view.os_release.lines)
                     => C16_PrettyNameThenName

\* thread t has finished a call during which the system did not change
Settled(t) == thread[t].pc = "done" /\ thread[t].stable

\* C23: under any interleaving of concurrent calls each call returns what it
\* would return alone on the same system, and the browser provider's
\* user-agent handle is initialised exactly once and never read before its
\* initialisation is complete.
C23_ConcurrentCallsAsAlone ==
    /\ \A t \in Threads :
           Settled(t) => thread[t].result = Alone(thread[t].query, hist[thread[t].seen])
    /\ statics.inits <= 1
    /\ ~statics.uninit_read
    /\ \A t \in Threads :
           thread[t].pc = "read" => statics.INIT = "complete" /\ statics.USER_AGENT = "handle"
    /\ statics.INIT = "complete" => statics.inits = 1

\* one thread has its answer from the browser provider while another is
\* inside user_agent(), at call_once
C23_Witness ==
    \E t, u \in Threads :
        /\ Settled(t)
        /\ thread[t].query = "wasm::platform"
        /\ thread[t].result = Ret([variant |-> "Linux", payload |-> <<>>])
        /\ thread[u].pc = "once"
        /\ thread[u].result = [st |-> "none"]
        /\ statics.inits = 1

\* C24: nothing is cached across calls: two calls of a function on an
\* unchanged system return the same value, and a call made after the hostname
\* changed returns the new hostname.
C24_NoCaching ==
    /\ \A t, u \in Threads :
           (Settled(t) /\ Settled(u) /\ thread[t].query = thread[u].query
                /\ thread[t].seen = thread[u].seen)
               => thread[t].result = thread[u].result
    /\ \A t \in Threads :
           (Settled(t) /\ thread[t].query = "hostname")
               => LET h == OsHostname(hist[thread[t].seen]) IN
                  thread[t].result =
                      Ret(IF h.st = "ok" THEN make_ascii_lowercase(h.val)
                          ELSE to_lowercase(DEFAULT_HOSTNAME))

\* one thread asked hostname() before the hostname changed from "A" to "B" and
\* got "a", another asked after the change and got "b"
C24_Witness ==
    \E t, u \in Threads :
        /\ Settled(t) /\ thread[t].query = "hostname" /\ thread[t].seen = 1
        /\ thread[t].result = Ret(<<97>>)
        /\ Settled(u) /\ thread[u].query = "hostname" /\ thread[u].seen = 2
        /\ thread[u].result = Ret(<<98>>)
        /\ hist[1].target = "unix"
        /\ hist[1].gethostname = <<65>> /\ hist[2].gethostname = <<66>>

\* C26: in every convenience fallback chain the sources are consulted in the
\* order written, a later source only after every earlier one failed, and no
\* source after the first success.
C26_ChainInOrder ==
    \A t \in Threads :
        LET log == thread[t].log
            ch  == Chain(thread[t].query)
        IN thread[t].query \in {"realname", "devicename", "hostname"} =>
            /\ Len(log) <= Len(ch)
            /\ \A i \in 1..Len(log) :
                   /\ log[i].src = ch[i]
                   /\ i < Len(log) => ~log[i].ok
            /\ thread[t].pc = "run" => \A i \in 1..Len(log) : ~log[i].ok
            /\ thread[t].pc = "done" => Len(log) >= 1 /\ log[Len(log)].ok

\* realname() found no real name, then a login name, and stopped there
C26_Witness ==
    \E t \in Threads :
        /\ thread[t].pc = "done"
        /\ thread[t].query = "realname"
        /\ thread[t].log = <<[src |-> "fallible::realname", ok |-> FALSE],
                             [src |-> "fallible::username", ok |-> TRUE]>>
        /\ thread[t].result = Ret(<<65>>)

====
